---------------------------- MODULE Spec2Model ----------------------------
(***************************************************************************)
(* A model of the PumpSwap trading bot (src/pumpswap-bot.ts) with its      *)
(* execution client (src/pumpswap/pumpswap.ts), its strategy manager       *)
(* (src/strategies/liquidity.ts, second half) and its three policies       *)
(* (src/strategies/momentum.ts, src/unnamed/part_000,                      *)
(* src/strategies/liquidity.ts).                                           *)
(*                                                                         *)
(* The bot runs on one JavaScript event loop.  An action of the model is   *)
(* one run-to-completion step: the code between two awaits that wait for   *)
(* the network.  An await of an async function that itself never waits for *)
(* the network (hasMinimumLiquidity, createSwapInstruction, the built-in   *)
(* policies' shouldSell when they return before a fetch) resumes in the    *)
(* same macrotask, so it does not end the step.                            *)
(*                                                                         *)
(* Amounts are in the smallest unit (lamports), prices are integers.       *)
(***************************************************************************)
EXTENDS Integers, Sequences, FiniteSets, TLC

(***************************************************************************)
(* Bounds of the model.                                                    *)
(***************************************************************************)
NumPools == 3        \* pool accounts the discovery feed reports in Spec
NumMints == 2        \* distinct base tokens among them
MaxPrice == 3        \* market prices are 0 (no price) .. MaxPrice
MaxTicks == 1        \* monitoring ticks that may overlap
MaxInFlight == 2     \* SpecCeiling: pool evaluations in flight at once

(***************************************************************************)
(* Program constants.                                                      *)
(***************************************************************************)
MAX_CONCURRENT_POSITIONS == 5
MAX_SLIPPAGE_BPS == 500
SwapFeeBps == 25
BuyMinAmountOut == 0
SellMinAmountOut == 0
DefaultPositionSize == 10000000
MomentumMinPositionSize == 10000000
VolumeMinPositionSize == 10000000
VolumeMaxPositionSize == 1000000000
LiquidityMinPositionSize == 10000000
LiquidityMaxPositionSize == 500000000
LiquidityTradeSize == 100000000
momentumThreshold == 10
lookbackPeriod == 5
MomentumTakeProfitPercent == 50
MomentumStopLossPercent == 30
minVolume24h == 10000
minLiquidityUSD == 5000
VolumeTakeProfitPercent == 50
VolumeStopLossPercent == 30
volumeDeclineThreshold == 50
minLiquiditySOL == 10
maxPriceImpact == 2
LiquidityTakeProfitPercent == 30
LiquidityStopLossPercent == 20
DAY_MS == 24 * 60 * 60 * 1000
HOUR_MS == 60 * 60 * 1000

\* enum StrategyType
StrategyTypes == {"momentum", "volume", "liquidity", "custom"}
\* StrategyManager.initializeStrategies registers these three
BuiltinStrategies == {"momentum", "volume", "liquidity"}

Mints == 1 .. (MAX_CONCURRENT_POSITIONS + 1)
Prices == 0 .. MaxPrice

RECURSIVE Pow10(_)
Pow10(n) == IF n <= 0 THEN 1 ELSE 10 * Pow10(n - 1)



(***************************************************************************)
(* External data.  A pool account as the chain returns it, a market-data   *)
(* record as the market-data service returns it.                           *)
(***************************************************************************)
NoAccount == [exists |-> FALSE, baseMint |-> 0, baseDecimals |-> 0,
              quoteDecimals |-> 0, baseReserve |-> 0, quoteReserve |-> 0]
BaseReserves == {0, 1000000000}
QuoteReserves == {0, 2000000000}
AccountsOf(mint) ==
    { [exists |-> TRUE, baseMint |-> mint, baseDecimals |-> 9,
       quoteDecimals |-> 9, baseReserve |-> b, quoteReserve |-> q] :
         b \in BaseReserves, q \in QuoteReserves }

NoTokenData == [found |-> FALSE, h24 |-> 0, usd |-> 0, h1 |-> 0, h6 |-> 0,
                change1h |-> 0]
TokenDatas ==
    { NoTokenData,
      \* rising volume, rising price
      [found |-> TRUE, h24 |-> 20000, usd |-> 6000, h1 |-> 2000, h6 |-> 6000,
       change1h |-> 3],
      \* quiet market
      [found |-> TRUE, h24 |-> 20000, usd |-> 6000, h1 |-> 1000, h6 |-> 6000,
       change1h |-> 0],
      \* volume dried up
      [found |-> TRUE, h24 |-> 20000, usd |-> 6000, h1 |-> 100, h6 |-> 6000,
       change1h |-> 0],
      \* high-volume sell-off
      [found |-> TRUE, h24 |-> 20000, usd |-> 6000, h1 |-> 2000, h6 |-> 6000,
       change1h |-> -6],
      \* too little volume
      [found |-> TRUE, h24 |-> 5000, usd |-> 6000, h1 |-> 2000, h6 |-> 6000,
       change1h |-> 3] }

(***************************************************************************)
(* PumpSwapClient: the snapshot fetch and the pure helpers.                *)
(***************************************************************************)
NoPoolInfo == [poolId |-> 0, baseMint |-> 0, baseDecimals |-> 0,
               quoteDecimals |-> 0, baseReserve |-> 0, quoteReserve |-> 0]

\* The reserve fields of the snapshot.  The repository holds a placeholder
\* here ("Parse from data"); the decoding is taken from the specification,
\* which assumes a correct snapshot fetch.
decodeReserve(raw) == IF raw < 0 THEN 0 ELSE raw

\* getPoolInfo: null (NoPoolInfo) when the account is not found or the
\* fetch throws, else the decoded snapshot.
getPoolInfo(poolId, account) ==
    IF ~account.exists
      THEN NoPoolInfo
      ELSE [poolId |-> poolId,
            baseMint |-> account.baseMint,
            baseDecimals |-> account.baseDecimals,
            quoteDecimals |-> account.quoteDecimals,
            baseReserve |-> decodeReserve(account.baseReserve),
            quoteReserve |-> decodeReserve(account.quoteReserve)]

\* a faulty price read that trusts the snapshot it was given
getCurrentPriceCached(poolInfo, account) ==
    IF poolInfo.baseReserve = 0 THEN 0
    ELSE (poolInfo.quoteReserve \div poolInfo.baseReserve)
           * Pow10(poolInfo.quoteDecimals - poolInfo.baseDecimals)

\* getCurrentPrice(poolInfo): the pool is fetched again, account being
\* what the chain returns now; 0 when the fetch fails or the base reserve
\* is zero, else quote/base times 10^(quoteDecimals - baseDecimals).  The
\* reserves of the model divide evenly and quoteDecimals is not below
\* baseDecimals, so the quotient is exact.
getCurrentPrice(poolInfo, account) ==
    LET freshPoolInfo == getPoolInfo(poolInfo.poolId, account)
    IN  IF freshPoolInfo = NoPoolInfo THEN 0
        ELSE IF freshPoolInfo.baseReserve = 0 THEN 0
        ELSE (freshPoolInfo.quoteReserve \div freshPoolInfo.baseReserve)
               * Pow10(freshPoolInfo.quoteDecimals
                         - freshPoolInfo.baseDecimals)

\* calculateSwapOutput: the constant-product output after the fee, 0 when
\* a reserve is empty
calculateSwapOutput(amountIn, reserveIn, reserveOut, feeBps) ==
    IF reserveIn = 0 \/ reserveOut = 0
      THEN 0
      ELSE LET amountInWithFee == amountIn * (10000 - feeBps)
               numerator == amountInWithFee * reserveOut
               denominator == reserveIn * 10000 + amountInWithFee
           IN  numerator \div denominator

\* a faulty liquidity test that lets every pool through
hasMinimumLiquidityAlways(poolInfo, minLiquidity) == TRUE

\* hasMinimumLiquidity: quoteReserve / 10^quoteDecimals >= minLiquiditySOL.
\* For an integer threshold x >= n is floor(x) >= n.
hasMinimumLiquidity(poolInfo, minLiquidity) ==
    (poolInfo.quoteReserve \div Pow10(poolInfo.quoteDecimals)) >= minLiquidity

(***************************************************************************)
(* Momentum policy.                                                        *)
(***************************************************************************)
\* a faulty window that, once full, keeps its oldest prices
MomentumRecordOldest(history, currentPrice) ==
    LET pushed == Append(history, currentPrice)
    IN  IF Len(pushed) > lookbackPeriod
          THEN SubSeq(pushed, 1, lookbackPeriod)
          ELSE pushed

\* history.slice(-lookbackPeriod) after the push
MomentumRecord(history, currentPrice) ==
    LET pushed == Append(history, currentPrice)
    IN  IF Len(pushed) > lookbackPeriod
          THEN SubSeq(pushed, Len(pushed) - lookbackPeriod + 1, Len(pushed))
          ELSE pushed

\* a faulty shouldBuy that takes the first price of a token for a rise
MomentumShouldBuyFirstPrice(history, price) ==
    IF price = 0
      THEN [history |-> history, decision |-> FALSE]
      ELSE LET h == MomentumRecord(history, price)
           IN  [history |-> h,
                decision |->
                  IF Len(h) < 2 THEN TRUE
                  ELSE /\ (price - h[1]) * 100 >= momentumThreshold * h[1]
                       /\ price - h[Len(h) - 1] > 0]

\* a faulty shouldBuy that does not look at the last step
MomentumShouldBuyNoRecentCheck(history, price) ==
    IF price = 0
      THEN [history |-> history, decision |-> FALSE]
      ELSE LET h == MomentumRecord(history, price)
           IN  [history |-> h,
                decision |->
                  IF Len(h) < 2 THEN FALSE
                  ELSE (price - h[1]) * 100 >= momentumThreshold * h[1]]

\* shouldBuy: the history after the call and the decision.  price is what
\* retrieveTokenValueByAddress returned, 0 for no price; a fetch that
\* raised is caught by the policy and declines like no price.
MomentumShouldBuy(history, price) ==
    IF price = 0
      THEN [history |-> history, decision |-> FALSE]
      ELSE LET h == MomentumRecord(history, price)
               oldestPrice == h[1]
               recentPrice == h[Len(h) - 1]
           IN  [history |-> h,
                decision |->
                  IF Len(h) < 2 THEN FALSE
                  ELSE IF (price - oldestPrice) * 100
                            >= momentumThreshold * oldestPrice
                         THEN (price - recentPrice) * 100 > 0
                         ELSE FALSE]

\* the last 3 recorded prices, each lower than the one before
IsDowntrend(history) ==
    /\ Len(history) >= 3
    /\ history[Len(history) - 1] < history[Len(history) - 2]
    /\ history[Len(history)] < history[Len(history) - 1]

\* a faulty shouldSell whose take profit needs more than the threshold
MomentumShouldSellStrict(position, currentPrice, history) ==
    IF position.buyValue = 0 \/ currentPrice = 0 THEN FALSE
    ELSE LET change100 == (currentPrice - position.buyValue) * 100
         IN  IF change100 > MomentumTakeProfitPercent * position.buyValue
               THEN TRUE
             ELSE IF change100 <= -MomentumStopLossPercent * position.buyValue
               THEN TRUE
             ELSE IsDowntrend(history) /\ change100 > 0

MomentumShouldSell(position, currentPrice, history) ==
    IF position.buyValue = 0 \/ currentPrice = 0 THEN FALSE
    ELSE LET change100 == (currentPrice - position.buyValue) * 100
         IN  IF change100 >= MomentumTakeProfitPercent * position.buyValue
               THEN TRUE
             ELSE IF change100 <= -MomentumStopLossPercent * position.buyValue
               THEN TRUE
             ELSE IsDowntrend(history) /\ change100 > 0

MomentumPositionSize(poolInfo) ==
    LET maxPositionSize == poolInfo.quoteReserve \div 100
    IN  IF maxPositionSize > MomentumMinPositionSize
          THEN maxPositionSize ELSE MomentumMinPositionSize

(***************************************************************************)
(* Volume policy.                                                          *)
(***************************************************************************)
\* a faulty shouldBuy that takes a 1-hour volume equal to the bar
VolumeShouldBuyLoose(tokenData) ==
    IF ~tokenData.found THEN FALSE
    ELSE IF tokenData.h24 < minVolume24h THEN FALSE
    ELSE IF tokenData.usd < minLiquidityUSD THEN FALSE
    ELSE /\ tokenData.h1 * 12 >= tokenData.h6 * 3
         /\ tokenData.change1h > 0

\* volume1h > (volume6h / 6) * 1.5, cross-multiplied by 12
VolumeShouldBuy(tokenData) ==
    IF ~tokenData.found THEN FALSE
    ELSE IF tokenData.h24 < minVolume24h THEN FALSE
    ELSE IF tokenData.usd < minLiquidityUSD THEN FALSE
    ELSE /\ tokenData.h1 * 12 > tokenData.h6 * 3
         /\ tokenData.change1h > 0

\* The profit and loss thresholds are decided before the market data is
\* fetched.
VolumeSellByThreshold(position, currentPrice) ==
    LET change100 == (currentPrice - position.buyValue) * 100
    IN  \/ change100 >= VolumeTakeProfitPercent * position.buyValue
        \/ change100 <= -VolumeStopLossPercent * position.buyValue

\* volume1h < avg6h * (1 - threshold/100), cross-multiplied by 600;
\* priceChange1h < -5 and volume1h > avg6h
VolumeSellByMarket(tokenData) ==
    /\ tokenData.found
    /\ \/ tokenData.h1 * 600 < tokenData.h6 * (100 - volumeDeclineThreshold)
       \/ tokenData.change1h < -5 /\ tokenData.h1 * 6 > tokenData.h6

VolumeShouldSell(position, currentPrice, tokenData) ==
    IF position.buyValue = 0 \/ currentPrice = 0 THEN FALSE
    ELSE IF VolumeSellByThreshold(position, currentPrice) THEN TRUE
    ELSE VolumeSellByMarket(tokenData)

VolumePositionSize(poolInfo) ==
    LET positionSize == poolInfo.quoteReserve \div 50
    IN  IF positionSize < VolumeMinPositionSize THEN VolumeMinPositionSize
        ELSE IF positionSize > VolumeMaxPositionSize
          THEN VolumeMaxPositionSize
        ELSE positionSize

(***************************************************************************)
(* Liquidity policy.                                                       *)
(***************************************************************************)
\* calculatePriceImpact(...) > limit.  100 when a reserve is zero;
\* (exactQuote - amountOut) / exactQuote * 100 otherwise, which is NaN, and
\* so not above the limit, when exactQuote is 0.
PriceImpactAbove(amountIn, reserveIn, reserveOut, limit) ==
    IF reserveIn = 0 \/ reserveOut = 0 THEN 100 > limit
    ELSE LET amountInWithFee == amountIn * 9975
             numerator == amountInWithFee * reserveOut
             denominator == reserveIn * 10000 + amountInWithFee
             amountOut == numerator \div denominator
             exactQuote == (amountIn * reserveOut) \div reserveIn
         IN  IF exactQuote = 0 THEN FALSE
             ELSE (exactQuote - amountOut) * 100 > limit * exactQuote

\* poolAge is Date.now() - poolInfo.createdAt
LiquidityShouldBuy(poolInfo, poolAge) ==
    LET liquiditySOL ==
          poolInfo.quoteReserve \div Pow10(poolInfo.quoteDecimals)
    IN  IF liquiditySOL < minLiquiditySOL THEN FALSE
        ELSE IF PriceImpactAbove(LiquidityTradeSize, poolInfo.quoteReserve,
                                 poolInfo.baseReserve, maxPriceImpact)
          THEN FALSE
        ELSE IF poolAge < DAY_MS /\ liquiditySOL < minLiquiditySOL * 2
          THEN FALSE
        ELSE /\ poolInfo.baseReserve > 0
             /\ poolInfo.quoteReserve > 0
             /\ poolInfo.baseReserve \div poolInfo.quoteReserve < 1000
             /\ poolInfo.quoteReserve \div poolInfo.baseReserve < 1000

\* a faulty shouldSell whose time-boxed exit starts at the hour
LiquidityShouldSellAtTheHour(position, currentPrice, holdTime) ==
    IF position.buyValue = 0 \/ currentPrice = 0 THEN FALSE
    ELSE LET change100 == (currentPrice - position.buyValue) * 100
         IN  IF change100 >= LiquidityTakeProfitPercent * position.buyValue
               THEN TRUE
             ELSE IF change100 <= -LiquidityStopLossPercent * position.buyValue
               THEN TRUE
             ELSE holdTime >= HOUR_MS /\ change100 < 5 * position.buyValue

\* a faulty shouldSell without the test of its arguments: a price of 0 is
\* a loss of 100%
LiquidityShouldSellUnguarded(position, currentPrice, holdTime) ==
    LET change100 == (currentPrice - position.buyValue) * 100
    IN  IF change100 >= LiquidityTakeProfitPercent * position.buyValue
          THEN TRUE
        ELSE IF change100 <= -LiquidityStopLossPercent * position.buyValue
          THEN TRUE
        ELSE holdTime > HOUR_MS /\ change100 < 5 * position.buyValue

\* holdTime is Date.now() - position.timestamp
LiquidityShouldSell(position, currentPrice, holdTime) ==
    IF position.buyValue = 0 \/ currentPrice = 0 THEN FALSE
    ELSE LET change100 == (currentPrice - position.buyValue) * 100
         IN  IF change100 >= LiquidityTakeProfitPercent * position.buyValue
               THEN TRUE
             ELSE IF change100 <= -LiquidityStopLossPercent * position.buyValue
               THEN TRUE
             ELSE holdTime > HOUR_MS /\ change100 < 5 * position.buyValue

LiquidityPositionSize(poolInfo) ==
    LET positionSize == poolInfo.quoteReserve \div 200
    IN  IF positionSize < LiquidityMinPositionSize
          THEN LiquidityMinPositionSize
        ELSE IF positionSize > LiquidityMaxPositionSize
          THEN LiquidityMaxPositionSize
        ELSE positionSize


(***************************************************************************)
(* State.                                                                  *)
(***************************************************************************)
VARIABLES
    chain,           \* the pool accounts on chain: pool id -> base mint
    AUTO_SELL,       \* configuration, read once at startup
    USE_SNIPE_LIST,
    MIN_POOL_SIZE,
    strategies,      \* StrategyManager.strategies (the registered types)
    activeStrategy,  \* StrategyManager.activeStrategy
    priceHistory,    \* MomentumStrategy.priceHistory: mint -> prices
    existingPools,   \* pool ids already seen
    activePositions, \* Map mint -> Position, in insertion order
    snipeList,
    proc,            \* one processPumpSwapPool call per admitted pool
    ticks,           \* the monitorPositions calls in progress
    evalCount,       \* observation: processPumpSwapPool calls per pool
    lastEvent,       \* observation: the last thing logged
    mgr              \* observation: the last call of a component driven
                     \* on its own (StrategyManager, getCurrentPrice)

vars == <<chain, AUTO_SELL, USE_SNIPE_LIST, MIN_POOL_SIZE, strategies,
          activeStrategy, priceHistory, existingPools, activePositions,
          snipeList, proc, ticks, evalCount, lastEvent, mgr>>

config == <<chain, AUTO_SELL, USE_SNIPE_LIST, MIN_POOL_SIZE, strategies,
            activeStrategy>>

(***************************************************************************)
(* The Map of open positions: a sequence of entries in insertion order.    *)
(***************************************************************************)
MapIndex(m, k) ==
    IF \E i \in 1 .. Len(m) : m[i].key = k
      THEN CHOOSE i \in 1 .. Len(m) : m[i].key = k
      ELSE 0

MapHas(m, k) == MapIndex(m, k) # 0

MapKeys(m) == { m[i].key : i \in 1 .. Len(m) }

\* a faulty Map.set that appends without looking for the key
MapSetAppend(m, k, v) == Append(m, [key |-> k, value |-> v])

\* Map.set: a new key is appended, an existing key keeps its place
MapSet(m, k, v) ==
    IF MapHas(m, k)
      THEN [i \in 1 .. Len(m) |->
              IF m[i].key = k THEN [key |-> k, value |-> v] ELSE m[i]]
      ELSE Append(m, [key |-> k, value |-> v])

\* a faulty Map.delete that removes nothing
MapDeleteNone(m, k) == m

\* Map.delete
MapDelete(m, k) == SelectSeq(m, LAMBDA e : e.key # k)

(***************************************************************************)
(* StrategyManager.  A policy call yields an outcome: the value it         *)
(* returned, or that it raised.                                            *)
(***************************************************************************)
Returned(v) == [threw |-> FALSE, value |-> v]
Raised == [threw |-> TRUE, value |-> FALSE]

\* getActiveStrategy() is undefined when the active type is not registered
HasActiveStrategy == activeStrategy \in strategies

\* a faulty manager decision without the try/catch
ManagerDecisionUncaught(hasStrategy, outcome) ==
    IF ~hasStrategy THEN Returned(FALSE) ELSE outcome

\* shouldBuy / shouldSell: false without a policy, false when it raises
ManagerDecision(hasStrategy, outcome) ==
    IF ~hasStrategy THEN Returned(FALSE)
    ELSE IF outcome.threw THEN Returned(FALSE)
    ELSE Returned(outcome.value)

\* calculatePositionSize: BigInt(10_000_000) without a policy or when it
\* raises
ManagerPositionSize(hasStrategy, outcome) ==
    IF ~hasStrategy THEN Returned(DefaultPositionSize)
    ELSE IF outcome.threw THEN Returned(DefaultPositionSize)
    ELSE Returned(outcome.value)

\* strategy.calculatePositionSize of the built-in policies
PolicyPositionSize(type, poolInfo) ==
    CASE type = "momentum" -> MomentumPositionSize(poolInfo)
      [] type = "volume" -> VolumePositionSize(poolInfo)
      [] OTHER -> LiquidityPositionSize(poolInfo)

(***************************************************************************)
(* Records of the calls in progress.                                       *)
(***************************************************************************)
NoPosition == [mint |-> 0, poolId |-> 0, entryPrice |-> 0, amount |-> 0,
               buyValue |-> 0, strategy |-> "none"]

\* minAmountOut: what the order in progress carries as its least output.
\* passed: observation, the gates that held when the call looked at them
IdleProc == [pc |-> "idle", poolInfo |-> NoPoolInfo, positionSize |-> 0,
             minAmountOut |-> 0, order |-> "none", passed |-> {}]
DoneProc == [pc |-> "done", poolInfo |-> NoPoolInfo, positionSize |-> 0,
             minAmountOut |-> 0, order |-> "none", passed |-> {}]

\* poolInfo: the snapshot fetched for the sell.  began: observation, the
\* tokens that were in the book when the call began
IdleTick == [pc |-> "idle", idx |-> 0, mint |-> 0, position |-> NoPosition,
             currentPrice |-> 0, poolInfo |-> NoPoolInfo, minAmountOut |-> 0,
             order |-> "none", began |-> {}]

RaisedNumber == [threw |-> TRUE, value |-> 0]
PriceResults ==
    { RaisedNumber } \cup { Returned(v) : v \in Prices }

HoldTimes == {0, HOUR_MS, HOUR_MS + 1}

\* What becomes of an order handed to the transport: confirmed, confirmed
\* with an error (rejected), or a throw on the way.
OrderOutcomes == {"confirmed", "rejected", "threw"}

\* A log line: the message, the price in its payload (0 when it has none)
\* and, for a line that ends an order, what became of the order.
Event(msg) == [msg |-> msg, price |-> 0, outcome |-> "none"]
PriceEvent(msg, price) == [msg |-> msg, price |-> price, outcome |-> "none"]
OrderEvent(msg, outcome) == [msg |-> msg, price |-> 0, outcome |-> outcome]

(***************************************************************************)
(* PumpSwapClient.buy and sell: what they return and what they log last.   *)
(***************************************************************************)
\* a faulty buy and a faulty sell that log the rejection and return the
\* signature all the same
buyIgnoringError(outcome) ==
    IF outcome = "threw" THEN "null" ELSE "signature"

sellIgnoringError(outcome) ==
    IF outcome = "threw" THEN "null" ELSE "signature"

buy(outcome) == IF outcome = "confirmed" THEN "signature" ELSE "null"

\* a faulty sell that never returns a signature
sellNoSignature(outcome) == "null"

sell(outcome) == IF outcome = "confirmed" THEN "signature" ELSE "null"

BuyLog(outcome) ==
    CASE outcome = "confirmed" -> "Buy transaction confirmed"
      [] outcome = "rejected" -> "Buy transaction failed"
      [] OTHER -> "Failed to execute buy"

SellLog(outcome) ==
    CASE outcome = "confirmed" -> "Sell transaction confirmed"
      [] outcome = "rejected" -> "Sell transaction failed"
      [] OTHER -> "Failed to execute sell"

(***************************************************************************)
(* Discovery: the onProgramAccountChange callback.                         *)
(***************************************************************************)
\* a faulty admission that never consults the registry
admitAlways(pools, key) == TRUE

\* !existingPools.has(key)
admit(pools, key) == key \notin pools

Discover(p) ==
    /\ p \in DOMAIN chain
    /\ IF admit(existingPools, p)
         THEN /\ existingPools' = existingPools \cup {p}
              /\ proc' = [proc EXCEPT ![p] =
                            [IdleProc EXCEPT !.pc = "getPoolInfo"]]
              /\ evalCount' = [evalCount EXCEPT
                                 ![p] = IF @ < 2 THEN @ + 1 ELSE @]
              /\ lastEvent' = Event("New pool detected")
         ELSE /\ lastEvent' = Event("event ignored")
              /\ UNCHANGED <<existingPools, proc, evalCount>>
    /\ UNCHANGED <<config, priceHistory, activePositions, snipeList, ticks,
                   mgr>>

(***************************************************************************)
(* processPumpSwapPool.                                                    *)
(***************************************************************************)
\* shouldBuy(mintAddress): the allow-list
shouldBuy(mintAddress) ==
    IF USE_SNIPE_LIST THEN mintAddress \in snipeList ELSE TRUE

\* a faulty ceiling test, off by one
atCeilingStrict(size) == size > MAX_CONCURRENT_POSITIONS

\* activePositions.size >= MAX_CONCURRENT_POSITIONS
atCeiling(size) == size >= MAX_CONCURRENT_POSITIONS

\* the gates with the allow-list after the position and ceiling tests
GateOrderAllowThird == <<"position", "ceiling", "allow", "liquidity">>

\* The gates that need no network, in the order the code takes them.
GateOrder == <<"allow", "position", "ceiling", "liquidity">>

GateFails(gate, poolInfo) ==
    CASE gate = "allow" -> ~shouldBuy(poolInfo.baseMint)
      [] gate = "position" -> MapHas(activePositions, poolInfo.baseMint)
      [] gate = "ceiling" -> atCeiling(Len(activePositions))
      [] gate = "liquidity" -> ~hasMinimumLiquidity(poolInfo, MIN_POOL_SIZE)

GateMessage(gate) ==
    CASE gate = "allow" -> "Token not in snipe list, skipping"
      [] gate = "position" -> "Already have position, skipping"
      [] gate = "ceiling" -> "Max concurrent positions reached, skipping"
      [] gate = "liquidity" -> "Insufficient liquidity, skipping"

\* the first gate of the order that fails, 0 when all pass
FirstFailing(order, poolInfo) ==
    IF \E i \in 1 .. Len(order) : GateFails(order[i], poolInfo)
      THEN CHOOSE i \in 1 .. Len(order) :
             /\ GateFails(order[i], poolInfo)
             /\ \A j \in 1 .. (i - 1) : ~GateFails(order[j], poolInfo)
      ELSE 0

\* the gates that hold for the snapshot in the present state
GatesHolding(poolInfo) ==
    { g \in {"allow", "position", "ceiling", "liquidity"} :
        ~GateFails(g, poolInfo) }

Finish(p, event) ==
    /\ proc' = [proc EXCEPT ![p] = DoneProc]
    /\ lastEvent' = event

\* After strategyManager.shouldBuy has answered: the size, then the buy
\* order, which is being built while the blockhash is fetched.
AfterBuyDecision(p, poolInfo, passed, decision) ==
    LET size == ManagerPositionSize(HasActiveStrategy,
                   Returned(PolicyPositionSize(activeStrategy, poolInfo)))
    IN  IF ~decision.value
          THEN Finish(p, Event("Strategy declined buy, skipping"))
          ELSE /\ proc' = [proc EXCEPT ![p] =
                             [pc |-> "buy", poolInfo |-> poolInfo,
                              positionSize |-> size.value,
                              minAmountOut |-> BuyMinAmountOut,
                              order |-> "Building",
                              passed |-> passed \cup {"strategy"}]]
               /\ lastEvent' = Event("Buying token...")

\* getPoolInfo has answered: the gates, then the policy.  Momentum and
\* Volume fetch market data first; Liquidity, and a manager without a
\* policy, answer at once.
PoolInfoReturns(p, account) ==
    /\ proc[p].pc = "getPoolInfo"
    /\ LET poolInfo == getPoolInfo(p, account)
           failing == FirstFailing(GateOrder, poolInfo)
       IN  IF poolInfo = NoPoolInfo
             THEN Finish(p, Event("Failed to fetch pool info"))
           ELSE IF failing # 0
             THEN Finish(p, Event(GateMessage(GateOrder[failing])))
           ELSE IF HasActiveStrategy
                   /\ activeStrategy \in {"momentum", "volume"}
             THEN /\ proc' = [proc EXCEPT ![p] =
                                [IdleProc EXCEPT
                                   !.pc = "shouldBuy",
                                   !.poolInfo = poolInfo,
                                   !.passed = GatesHolding(poolInfo)]]
                  /\ UNCHANGED lastEvent
           ELSE AfterBuyDecision(p, poolInfo, GatesHolding(poolInfo),
                  ManagerDecision(HasActiveStrategy,
                                  Returned(LiquidityShouldBuy(poolInfo, 0))))
    /\ UNCHANGED <<config, priceHistory, existingPools, activePositions,
                   snipeList, ticks, evalCount, mgr>>

\* Momentum's shouldBuy: retrieveTokenValueByAddress has answered.  A
\* fetch that raised is caught by the policy, which declines.
MomentumReturns(p, price) ==
    /\ proc[p].pc = "shouldBuy"
    /\ activeStrategy = "momentum"
    /\ LET poolInfo == proc[p].poolInfo
           mint == poolInfo.baseMint
           r == MomentumShouldBuy(priceHistory[mint],
                                  IF price.threw THEN 0 ELSE price.value)
       IN  /\ priceHistory' = [priceHistory EXCEPT ![mint] = r.history]
           /\ AfterBuyDecision(p, poolInfo, proc[p].passed,
                ManagerDecision(HasActiveStrategy, Returned(r.decision)))
    /\ UNCHANGED <<config, existingPools, activePositions, snipeList, ticks,
                   evalCount, mgr>>

\* Volume's shouldBuy: fetchTokenData has answered.
VolumeReturns(p, tokenData) ==
    /\ proc[p].pc = "shouldBuy"
    /\ activeStrategy = "volume"
    /\ AfterBuyDecision(p, proc[p].poolInfo, proc[p].passed,
         ManagerDecision(HasActiveStrategy,
                         Returned(VolumeShouldBuy(tokenData))))
    /\ UNCHANGED <<config, priceHistory, existingPools, activePositions,
                   snipeList, ticks, evalCount, mgr>>

\* buy: getLatestBlockhash has answered (or thrown); the signed order goes
\* to the transport.
BuyBuilt(p, ok) ==
    /\ proc[p].pc = "buy"
    /\ proc[p].order = "Building"
    /\ IF ok
         THEN /\ proc' = [proc EXCEPT ![p].order = "Submitted"]
              /\ lastEvent' = Event("Buy transaction sent")
         ELSE Finish(p, OrderEvent(BuyLog("threw"), "threw"))
    /\ UNCHANGED <<config, priceHistory, existingPools, activePositions,
                   snipeList, ticks, evalCount, mgr>>

\* buy: the transport has sent the order and the confirmation has arrived,
\* or one of the two has thrown.  With a signature returned, the price is
\* read back.
BuySettles(p, outcome) ==
    /\ proc[p].pc = "buy"
    /\ proc[p].order = "Submitted"
    /\ IF buy(outcome) # "null"
         THEN /\ proc' = [proc EXCEPT ![p].pc = "getCurrentPrice",
                                      ![p].order = "Confirmed"]
              /\ lastEvent' = OrderEvent(BuyLog(outcome), outcome)
         ELSE Finish(p, OrderEvent(BuyLog(outcome), outcome))
    /\ UNCHANGED <<config, priceHistory, existingPools, activePositions,
                   snipeList, ticks, evalCount, mgr>>

\* The position a settled buy opens.
NewPosition(poolInfo, currentPrice, positionSize) ==
    [mint |-> poolInfo.baseMint,
     poolId |-> poolInfo.poolId,
     entryPrice |-> currentPrice,
     amount |-> positionSize,
     buyValue |-> currentPrice,
     strategy |-> IF HasActiveStrategy THEN activeStrategy ELSE "momentum"]

\* getCurrentPrice has answered: the position is inserted.
BuyPriceReturns(p, account) ==
    /\ proc[p].pc = "getCurrentPrice"
    /\ LET poolInfo == proc[p].poolInfo
           currentPrice == getCurrentPrice(poolInfo, account)
       IN  /\ activePositions' =
                MapSet(activePositions, poolInfo.baseMint,
                       NewPosition(poolInfo, currentPrice,
                                   proc[p].positionSize))
           /\ Finish(p, PriceEvent("Buy successful", currentPrice))
    /\ UNCHANGED <<config, priceHistory, existingPools, snipeList, ticks,
                   evalCount, mgr>>

\* loadSnipeList on its timer: the file holds any list.
LoadSnipeList(list) ==
    /\ USE_SNIPE_LIST
    /\ list # snipeList
    /\ snipeList' = list
    /\ UNCHANGED <<config, priceHistory, existingPools, activePositions,
                   proc, ticks, evalCount, lastEvent, mgr>>

(***************************************************************************)
(* monitorPositions, started by setInterval whether or not the call before *)
(* it has returned.  The for-of loop reads the live Map: an iterator is a  *)
(* place in the entry list (idx, the entry in hand), entries appended      *)
(* while it runs are reached, and a delete moves the places behind it.     *)
(***************************************************************************)
\* iterator.next() from place idx: the next entry and the price fetch for
\* it, or the end of the call
NextEntry(positions, idx, began) ==
    IF idx + 1 <= Len(positions)
      THEN [pc |-> "price", idx |-> idx + 1,
            mint |-> positions[idx + 1].key,
            position |-> positions[idx + 1].value,
            currentPrice |-> 0,
            poolInfo |-> NoPoolInfo,
            minAmountOut |-> 0,
            order |-> "none",
            began |-> began]
      ELSE IdleTick

\* activePositions.delete(mintAddress) and what it does to the iterators:
\* those at or past the deleted entry move one place back.
DeleteAndContinue(t) ==
    LET k == MapIndex(activePositions, ticks[t].mint)
        left == MapDelete(activePositions, ticks[t].mint)
        place(u) == IF k # 0 /\ ticks[u].pc # "idle" /\ ticks[u].idx >= k
                      THEN ticks[u].idx - 1
                      ELSE ticks[u].idx
    IN  /\ activePositions' = left
        /\ ticks' = [u \in DOMAIN ticks |->
                       IF u = t THEN NextEntry(left, place(t), ticks[t].began)
                       ELSE [ticks[u] EXCEPT !.idx = place(u)]]

\* a faulty loop whose try/catch is around the loop: the call ends
ContinueAbort(t) ==
    /\ ticks' = [ticks EXCEPT ![t] = IdleTick]
    /\ UNCHANGED activePositions

\* continue, or the end of the loop body: the position stays in the Map
Continue(t) ==
    /\ ticks' = [ticks EXCEPT ![t] = NextEntry(activePositions, ticks[t].idx,
                                              ticks[t].began)]
    /\ UNCHANGED activePositions

FreeTick(t) ==
    /\ ticks[t].pc = "idle"
    /\ \A u \in 1 .. (t - 1) : ticks[u].pc # "idle"

\* The timer fires.  With no open position the call returns at once and
\* nothing changes.
TickStart(t) ==
    /\ AUTO_SELL
    /\ FreeTick(t)
    /\ Len(activePositions) > 0
    /\ ticks' = [ticks EXCEPT ![t] = NextEntry(activePositions, 0,
                                              MapKeys(activePositions))]
    /\ UNCHANGED <<config, priceHistory, existingPools, activePositions,
                   snipeList, proc, evalCount, lastEvent, mgr>>

\* a faulty price test that takes 0 for a price
noPriceOnlyNegative(currentPrice) == currentPrice < 0

\* !currentPrice
noPrice(currentPrice) == currentPrice = 0

\* After strategyManager.shouldSell has answered: the pool snapshot is
\* fetched for a sell, or the loop goes on.
AfterSellDecision(t, currentPrice, decision) ==
    IF decision.value
      THEN /\ ticks' = [ticks EXCEPT ![t].pc = "getPoolInfo",
                                     ![t].currentPrice = currentPrice]
           /\ lastEvent' = PriceEvent("Selling token...", currentPrice)
           /\ UNCHANGED activePositions
      ELSE /\ Continue(t)
           /\ lastEvent' = PriceEvent(IF HasActiveStrategy
                                        THEN "Sell decision evaluated"
                                        ELSE "No active strategy found",
                                      currentPrice)

\* retrieveTokenValueByAddress has answered.  No price: the position is
\* passed over.  Otherwise the policy decides; Volume, when neither
\* threshold is hit, fetches market data first.  holdTime is
\* Date.now() - position.timestamp, some time that has passed since the
\* position was opened; only Liquidity reads it.
TickPrice(t, price, holdTime) ==
    /\ ticks[t].pc = "price"
    /\ LET position == ticks[t].position
           mint == ticks[t].mint
       IN  IF price.threw
             THEN /\ Continue(t)
                  /\ lastEvent' = Event("Failed to monitor position")
           ELSE IF noPrice(price.value)
             THEN /\ Continue(t)
                  /\ lastEvent' = Event("Failed to fetch current price")
           ELSE IF ~HasActiveStrategy
             THEN AfterSellDecision(t, price.value,
                    ManagerDecision(FALSE, Returned(FALSE)))
           ELSE IF activeStrategy = "momentum"
             THEN AfterSellDecision(t, price.value,
                    ManagerDecision(TRUE,
                      Returned(MomentumShouldSell(position, price.value,
                                                  priceHistory[mint]))))
           ELSE IF activeStrategy = "liquidity"
             THEN AfterSellDecision(t, price.value,
                    ManagerDecision(TRUE,
                      Returned(LiquidityShouldSell(position, price.value,
                                                   holdTime))))
           ELSE IF position.buyValue = 0 \/ price.value = 0
             THEN AfterSellDecision(t, price.value,
                    ManagerDecision(TRUE, Returned(FALSE)))
           ELSE IF VolumeSellByThreshold(position, price.value)
             THEN AfterSellDecision(t, price.value,
                    ManagerDecision(TRUE, Returned(TRUE)))
           ELSE /\ ticks' = [ticks EXCEPT ![t].pc = "tokenData",
                                          ![t].currentPrice = price.value]
                /\ lastEvent' = PriceEvent("Position update", price.value)
                /\ UNCHANGED activePositions
    /\ UNCHANGED <<config, priceHistory, existingPools, snipeList, proc,
                   evalCount, mgr>>

\* Volume's market data has arrived.
TickTokenData(t, tokenData) ==
    /\ ticks[t].pc = "tokenData"
    /\ AfterSellDecision(t, ticks[t].currentPrice,
         ManagerDecision(HasActiveStrategy,
                         Returned(VolumeSellByMarket(tokenData))))
    /\ UNCHANGED <<config, priceHistory, existingPools, snipeList, proc,
                   evalCount, mgr>>

\* a faulty test that takes a missing snapshot for a snapshot
hasPoolInfoAlways(poolInfo) == TRUE

\* if (poolInfo), after the snapshot fetch for a sell
hasPoolInfo(poolInfo) == poolInfo # NoPoolInfo

\* getPoolInfo(position.poolId) has answered: the sell order is being
\* built, or, without a snapshot, the position is passed over.
TickPoolInfo(t, account) ==
    /\ ticks[t].pc = "getPoolInfo"
    /\ LET poolInfo == getPoolInfo(ticks[t].position.poolId, account)
       IN  IF hasPoolInfo(poolInfo)
             THEN /\ ticks' = [ticks EXCEPT ![t].pc = "sell",
                                            ![t].poolInfo = poolInfo,
                                            ![t].minAmountOut =
                                               SellMinAmountOut,
                                            ![t].order = "Building"]
                  /\ UNCHANGED <<lastEvent, activePositions>>
             ELSE /\ Continue(t)
                  /\ lastEvent' = Event("Pool account not found")
    /\ UNCHANGED <<config, priceHistory, existingPools, snipeList, proc,
                   evalCount, mgr>>

\* sell: getLatestBlockhash has answered (or thrown).
SellBuilt(t, ok) ==
    /\ ticks[t].pc = "sell"
    /\ ticks[t].order = "Building"
    /\ IF ok
         THEN /\ ticks' = [ticks EXCEPT ![t].order = "Submitted"]
              /\ lastEvent' = Event("Sell transaction sent")
              /\ UNCHANGED activePositions
         ELSE /\ Continue(t)
              /\ lastEvent' = OrderEvent(SellLog("threw"), "threw")
    /\ UNCHANGED <<config, priceHistory, existingPools, snipeList, proc,
                   evalCount, mgr>>

\* sell: sent and confirmed, or one of the two has thrown.  Only with a
\* signature returned is the position removed.
SellSettles(t, outcome) ==
    /\ ticks[t].pc = "sell"
    /\ ticks[t].order = "Submitted"
    /\ IF sell(outcome) # "null"
         THEN /\ DeleteAndContinue(t)
              /\ lastEvent' = OrderEvent("Sell successful", outcome)
         ELSE /\ Continue(t)
              /\ lastEvent' = OrderEvent(SellLog(outcome), outcome)
    /\ UNCHANGED <<config, priceHistory, existingPools, snipeList, proc,
                   evalCount, mgr>>

(***************************************************************************)
(* The bot.                                                                *)
(***************************************************************************)
NoManagerCall == [op |-> "none", hasStrategy |-> FALSE,
                  outcome |-> Returned(FALSE), result |-> Returned(FALSE)]

\* the pool accounts of Spec: NumPools pools over NumMints base tokens
MainChain == [p \in 1 .. NumPools |-> ((p - 1) % NumMints) + 1]

ChainMints == { chain[p] : p \in DOMAIN chain }

\* the state after init(): c the pool accounts, n the monitoring calls
\* that may overlap
InitBot(c, n) ==
    /\ chain = c
    /\ strategies = BuiltinStrategies
    /\ priceHistory = [m \in Mints |-> <<>>]
    /\ existingPools = {}
    /\ activePositions = <<>>
    /\ proc = [p \in DOMAIN c |-> IdleProc]
    /\ ticks = [t \in 1 .. n |-> IdleTick]
    /\ evalCount = [p \in DOMAIN c |-> 0]
    /\ lastEvent = Event("Initialization complete!")
    /\ mgr = NoManagerCall

Init ==
    /\ InitBot(MainChain, MaxTicks)
    /\ AUTO_SELL \in BOOLEAN
    /\ USE_SNIPE_LIST \in BOOLEAN
    /\ MIN_POOL_SIZE = 1
    /\ activeStrategy \in StrategyTypes
    /\ snipeList \in IF USE_SNIPE_LIST THEN SUBSET ChainMints ELSE {{}}

\* what a snapshot fetch may find for a pool
Fetched(mint) == {NoAccount} \cup AccountsOf(mint)

Next ==
    \/ \E p \in DOMAIN chain : Discover(p)
    \/ \E p \in DOMAIN chain :
         \E a \in Fetched(chain[p]) : PoolInfoReturns(p, a)
    \/ \E p \in DOMAIN chain, price \in PriceResults :
         MomentumReturns(p, price)
    \/ \E p \in DOMAIN chain, d \in TokenDatas : VolumeReturns(p, d)
    \/ \E p \in DOMAIN chain, ok \in BOOLEAN : BuyBuilt(p, ok)
    \/ \E p \in DOMAIN chain, o \in OrderOutcomes : BuySettles(p, o)
    \/ \E p \in DOMAIN chain :
         \E a \in Fetched(chain[p]) : BuyPriceReturns(p, a)
    \/ \E list \in SUBSET ChainMints : LoadSnipeList(list)
    \/ \E t \in DOMAIN ticks : TickStart(t)
    \/ \E t \in DOMAIN ticks, price \in PriceResults :
         \E holdTime \in IF activeStrategy = "liquidity"
                            THEN HoldTimes ELSE {0} :
           TickPrice(t, price, holdTime)
    \/ \E t \in DOMAIN ticks, d \in TokenDatas : TickTokenData(t, d)
    \/ \E t \in DOMAIN ticks :
         \E a \in Fetched(ticks[t].mint) : TickPoolInfo(t, a)
    \/ \E t \in DOMAIN ticks, ok \in BOOLEAN : SellBuilt(t, ok)
    \/ \E t \in DOMAIN ticks, o \in OrderOutcomes : SellSettles(t, o)

Spec == Init /\ [][Next]_vars


(***************************************************************************)
(* The bot at its ceiling: one pool more than MAX_CONCURRENT_POSITIONS,    *)
(* each with a base token of its own, the Volume policy, no allow-list, no *)
(* auto-sell.  The feed reports the pools in order and reports the next    *)
(* one only while fewer than MaxInFlight evaluations are in progress; the  *)
(* pools are funded when they are found.                                   *)
(***************************************************************************)
CeilingChain == [p \in 1 .. (MAX_CONCURRENT_POSITIONS + 1) |-> p]

InFlight == { p \in DOMAIN chain : proc[p].pc \notin {"idle", "done"} }

InitCeiling ==
    /\ InitBot(CeilingChain, 0)
    /\ AUTO_SELL = FALSE
    /\ USE_SNIPE_LIST = FALSE
    /\ MIN_POOL_SIZE = 1
    /\ activeStrategy = "volume"
    /\ snipeList = {}

DiscoverInOrder(p) ==
    /\ \A q \in 1 .. (p - 1) : q \in existingPools
    /\ p \in existingPools \/ Cardinality(InFlight) < MaxInFlight
    /\ Discover(p)

\* a funded pool account
Funded(mint) ==
    [exists |-> TRUE, baseMint |-> mint, baseDecimals |-> 9,
     quoteDecimals |-> 9, baseReserve |-> 1000000000,
     quoteReserve |-> 2000000000]

NextCeiling ==
    \/ \E p \in DOMAIN chain : DiscoverInOrder(p)
    \/ \E p \in DOMAIN chain :
         \E a \in {NoAccount, Funded(chain[p])} : PoolInfoReturns(p, a)
    \/ \E p \in DOMAIN chain, d \in TokenDatas : VolumeReturns(p, d)
    \/ \E p \in DOMAIN chain, ok \in BOOLEAN : BuyBuilt(p, ok)
    \/ \E p \in DOMAIN chain, o \in OrderOutcomes : BuySettles(p, o)
    \/ \E p \in DOMAIN chain : BuyPriceReturns(p, Funded(chain[p]))

SpecCeiling == InitCeiling /\ [][NextCeiling]_vars

(***************************************************************************)
(* StrategyManager on its own, driven through its public methods.  A       *)
(* built-in policy answers as its code does; a custom policy, once added,  *)
(* may return anything or raise.  The calls are about one token, mint 1.   *)
(***************************************************************************)
ManagerPoolInfos == { getPoolInfo(1, a) : a \in AccountsOf(1) }

ManagerPositions ==
    { [mint |-> 1, poolId |-> 1, entryPrice |-> b, amount |-> 10000000,
       buyValue |-> b, strategy |-> "momentum"] : b \in {0, 2} }

CustomDecisions == {Raised, Returned(TRUE), Returned(FALSE)}
CustomSizes == {RaisedNumber, Returned(1), Returned(20000000)}

InitManager ==
    /\ InitBot(MainChain, 0)
    /\ AUTO_SELL = FALSE
    /\ USE_SNIPE_LIST = FALSE
    /\ MIN_POOL_SIZE = 1
    /\ activeStrategy \in StrategyTypes
    /\ snipeList = {}

ManagerFrame ==
    UNCHANGED <<chain, AUTO_SELL, USE_SNIPE_LIST, MIN_POOL_SIZE,
                existingPools, activePositions, snipeList, proc, ticks,
                evalCount, lastEvent>>

\* addCustomStrategy(strategy), strategy.type being CUSTOM
AddCustomStrategy ==
    /\ strategies' = strategies \cup {"custom"}
    /\ UNCHANGED <<activeStrategy, priceHistory, mgr>>
    /\ ManagerFrame

\* setActiveStrategy(strategyType)
SetActiveStrategy(strategyType) ==
    /\ activeStrategy' = IF strategyType \in strategies
                           THEN strategyType ELSE activeStrategy
    /\ UNCHANGED <<strategies, priceHistory, mgr>>
    /\ ManagerFrame

ManagerCall(op, outcome, result) ==
    [op |-> op, hasStrategy |-> HasActiveStrategy,
     outcome |-> IF HasActiveStrategy THEN outcome ELSE result,
     result |-> result]

\* shouldBuy(poolInfo): price and tokenData are what the policy's market
\* data fetch returns, custom what a custom policy does
ManagerShouldBuy(poolInfo, price, tokenData, custom) ==
    LET r == MomentumShouldBuy(priceHistory[1], price)
        outcome ==
          CASE activeStrategy = "momentum" -> Returned(r.decision)
            [] activeStrategy = "volume" ->
                 Returned(VolumeShouldBuy(tokenData))
            [] activeStrategy = "liquidity" ->
                 Returned(LiquidityShouldBuy(poolInfo, 0))
            [] OTHER -> custom
    IN  /\ mgr' = ManagerCall("shouldBuy", outcome,
                              ManagerDecision(HasActiveStrategy, outcome))
        /\ priceHistory' =
             IF HasActiveStrategy /\ activeStrategy = "momentum"
               THEN [priceHistory EXCEPT ![1] = r.history]
               ELSE priceHistory
        /\ UNCHANGED <<strategies, activeStrategy>>
        /\ ManagerFrame

\* shouldSell(position, currentPrice)
ManagerShouldSell(position, currentPrice, tokenData, holdTime, custom) ==
    LET outcome ==
          CASE activeStrategy = "momentum" ->
                 Returned(MomentumShouldSell(position, currentPrice,
                                             priceHistory[1]))
            [] activeStrategy = "volume" ->
                 Returned(VolumeShouldSell(position, currentPrice,
                                           tokenData))
            [] activeStrategy = "liquidity" ->
                 Returned(LiquidityShouldSell(position, currentPrice,
                                              holdTime))
            [] OTHER -> custom
    IN  /\ mgr' = ManagerCall("shouldSell", outcome,
                              ManagerDecision(HasActiveStrategy, outcome))
        /\ UNCHANGED <<strategies, activeStrategy, priceHistory>>
        /\ ManagerFrame

\* calculatePositionSize(poolInfo)
ManagerCalculatePositionSize(poolInfo, custom) ==
    LET outcome ==
          IF activeStrategy \in BuiltinStrategies
            THEN Returned(PolicyPositionSize(activeStrategy, poolInfo))
            ELSE custom
    IN  /\ mgr' = ManagerCall("calculatePositionSize", outcome,
                              ManagerPositionSize(HasActiveStrategy,
                                                  outcome))
        /\ UNCHANGED <<strategies, activeStrategy, priceHistory>>
        /\ ManagerFrame

\* the inputs a call reads, given the active policy
For(type, inputs, unread) == IF activeStrategy = type THEN inputs ELSE {unread}

CustomFor(inputs, unread) ==
    IF activeStrategy \in BuiltinStrategies THEN {unread} ELSE inputs

NextManager ==
    \/ AddCustomStrategy
    \/ \E type \in StrategyTypes : SetActiveStrategy(type)
    \/ \E poolInfo \in ManagerPoolInfos,
          price \in For("momentum", Prices, 0),
          d \in For("volume", TokenDatas, NoTokenData),
          custom \in CustomFor(CustomDecisions, Raised) :
         ManagerShouldBuy(poolInfo, price, d, custom)
    \/ \E position \in ManagerPositions, price \in Prices,
          d \in For("volume", TokenDatas, NoTokenData),
          holdTime \in For("liquidity", HoldTimes, 0),
          custom \in CustomFor(CustomDecisions, Raised) :
         ManagerShouldSell(position, price, d, holdTime, custom)
    \/ \E poolInfo \in ManagerPoolInfos,
          custom \in CustomFor(CustomSizes, RaisedNumber) :
         ManagerCalculatePositionSize(poolInfo, custom)

SpecManager == InitManager /\ [][NextManager]_vars

(***************************************************************************)
(* getCurrentPrice on its own: called with any snapshot of pool 1 taken    *)
(* earlier while the chain holds any account for the pool now, or none.    *)
(***************************************************************************)
PriceDecimals == {<<9, 9>>, <<6, 9>>}

PriceAccounts ==
    { [exists |-> TRUE, baseMint |-> 1, baseDecimals |-> d[1],
       quoteDecimals |-> d[2], baseReserve |-> b, quoteReserve |-> q] :
         d \in PriceDecimals, b \in {0, 1000, 2000}, q \in {0, 2000, 6000} }

PricePoolInfos == { getPoolInfo(1, a) : a \in PriceAccounts }

InitPrice ==
    /\ InitBot(MainChain, 0)
    /\ AUTO_SELL = FALSE
    /\ USE_SNIPE_LIST = FALSE
    /\ MIN_POOL_SIZE = 1
    /\ activeStrategy = "momentum"
    /\ snipeList = {}

\* getCurrentPrice(poolInfo) while the chain holds account
PriceCall(poolInfo, account) ==
    /\ mgr' = [op |-> "getCurrentPrice", poolInfo |-> poolInfo,
               account |-> account,
               result |-> getCurrentPrice(poolInfo, account)]
    /\ UNCHANGED <<strategies, activeStrategy, priceHistory>>
    /\ ManagerFrame

NextPrice ==
    \E poolInfo \in PricePoolInfos, account \in {NoAccount} \cup PriceAccounts :
      PriceCall(poolInfo, account)

SpecPrice == InitPrice /\ [][NextPrice]_vars

(***************************************************************************)
(* bigint values.  The amounts of the policies are JavaScript bigints,     *)
(* which have no width; a value is modelled as the sequence of its digits  *)
(* to the base BigBase, lowest first, without leading zeros (0 is the      *)
(* empty sequence), and +, -, *, / and <= are the schoolbook ones.         *)
(***************************************************************************)
BigBase == Pow10(4)

\* BigInt(n) for n >= 0
RECURSIVE BigOf(_)
BigOf(n) == IF n = 0 THEN <<>> ELSE <<n % BigBase>> \o BigOf(n \div BigBase)

\* Number(a), for a value that fits
RECURSIVE BigValue(_)
BigValue(a) == IF a = <<>> THEN 0 ELSE a[1] + BigBase * BigValue(Tail(a))

\* BigBase * a + d
BigCons(d, a) == IF a = <<>> /\ d = 0 THEN <<>> ELSE <<d>> \o a

\* a + b + carry
RECURSIVE BigAdd(_, _, _)
BigAdd(a, b, carry) ==
    IF a = <<>> /\ b = <<>>
      THEN BigOf(carry)
      ELSE LET x == IF a = <<>> THEN 0 ELSE a[1]
               y == IF b = <<>> THEN 0 ELSE b[1]
               s == x + y + carry
           IN  BigCons(s % BigBase,
                       BigAdd(IF a = <<>> THEN <<>> ELSE Tail(a),
                              IF b = <<>> THEN <<>> ELSE Tail(b),
                              s \div BigBase))

\* a <= b
RECURSIVE BigLeq(_, _)
BigLeq(a, b) ==
    IF Len(a) # Len(b) THEN Len(a) < Len(b)
    ELSE IF a = <<>> THEN TRUE
    ELSE IF a[Len(a)] # b[Len(b)] THEN a[Len(a)] < b[Len(b)]
    ELSE BigLeq(SubSeq(a, 1, Len(a) - 1), SubSeq(b, 1, Len(b) - 1))

\* a - b - borrow, for a >= b + borrow
RECURSIVE BigSub(_, _, _)
BigSub(a, b, borrow) ==
    IF a = <<>>
      THEN <<>>
      ELSE LET y == (IF b = <<>> THEN 0 ELSE b[1]) + borrow
               d == IF a[1] >= y THEN a[1] - y ELSE a[1] + BigBase - y
           IN  BigCons(d,
                       BigSub(Tail(a),
                              IF b = <<>> THEN <<>> ELSE Tail(b),
                              IF a[1] >= y THEN 0 ELSE 1))

\* a * d + carry for one digit d
RECURSIVE BigScale(_, _, _)
BigScale(a, d, carry) ==
    IF a = <<>>
      THEN BigOf(carry)
      ELSE LET s == a[1] * d + carry
           IN  BigCons(s % BigBase, BigScale(Tail(a), d, s \div BigBase))

\* a * b
RECURSIVE BigMul(_, _)
BigMul(a, b) ==
    IF a = <<>> \/ b = <<>>
      THEN <<>>
      ELSE BigAdd(BigScale(a, b[1], 0), BigCons(0, BigMul(a, Tail(b))), 0)

\* the largest digit k of lo .. hi with k * b <= r
RECURSIVE BigDigit(_, _, _, _)
BigDigit(r, b, lo, hi) ==
    IF lo = hi
      THEN lo
      ELSE LET mid == (lo + hi + 1) \div 2
           IN  IF BigLeq(BigScale(b, mid, 0), r)
                 THEN BigDigit(r, b, mid, hi)
                 ELSE BigDigit(r, b, lo, mid - 1)

\* a / b of bigints: the quotient rounded toward zero, for b > 0
RECURSIVE BigDiv(_, _)
BigDiv(a, b) ==
    IF a = <<>>
      THEN [quotient |-> <<>>, remainder |-> <<>>]
      ELSE LET high == BigDiv(Tail(a), b)
               r == BigCons(a[1], high.remainder)
               digit == BigDigit(r, b, 0, BigBase - 1)
           IN  [quotient |-> BigCons(digit, high.quotient),
                remainder |-> BigSub(r, BigScale(b, digit, 0), 0)]

(***************************************************************************)
(* The amounts of the policies, on bigints.                                *)
(***************************************************************************)
\* a faulty price impact that charges no fee
calculatePriceImpactNoFee(amountIn, reserveIn, reserveOut) ==
    IF reserveIn = <<>> \/ reserveOut = <<>>
      THEN 100 * 1000
      ELSE LET numerator == BigMul(amountIn, reserveOut)
               denominator == BigAdd(reserveIn, amountIn, 0)
               amountOut == BigDiv(numerator, denominator).quotient
               exactQuote ==
                 BigDiv(BigMul(amountIn, reserveOut), reserveIn).quotient
               lost == BigSub(exactQuote, amountOut, 0)
           IN  IF exactQuote = <<>>
                 THEN -1
                 ELSE BigValue(BigDiv(BigMul(lost, BigOf(100 * 1000)),
                                      exactQuote).quotient)

\* LiquidityStrategy.calculatePriceImpact, in thousandths of a percent
\* rounded down: 100 percent when a reserve is zero, NaN when exactQuote
\* is zero
ImpactNaN == -1
calculatePriceImpact(amountIn, reserveIn, reserveOut) ==
    IF reserveIn = <<>> \/ reserveOut = <<>>
      THEN 100 * 1000
      ELSE LET amountInWithFee == BigMul(amountIn, BigOf(9975))
               numerator == BigMul(amountInWithFee, reserveOut)
               denominator ==
                 BigAdd(BigMul(reserveIn, BigOf(10000)), amountInWithFee, 0)
               amountOut == BigDiv(numerator, denominator).quotient
               exactQuote ==
                 BigDiv(BigMul(amountIn, reserveOut), reserveIn).quotient
               lost == BigSub(exactQuote, amountOut, 0)
           IN  IF exactQuote = <<>>
                 THEN ImpactNaN
                 ELSE BigValue(BigDiv(BigMul(lost, BigOf(100 * 1000)),
                                      exactQuote).quotient)

\* MomentumStrategy.calculatePositionSize
MomentumCalculatePositionSize(quoteReserve) ==
    LET maxPositionSize == BigDiv(quoteReserve, BigOf(100)).quotient
        minPositionSize == BigOf(MomentumMinPositionSize)
    IN  IF ~BigLeq(maxPositionSize, minPositionSize)
          THEN maxPositionSize ELSE minPositionSize

\* a faulty Volume size without the cap
VolumeCalculatePositionSizeNoCap(quoteReserve) ==
    LET positionSize == BigDiv(quoteReserve, BigOf(50)).quotient
        minPositionSize == BigOf(VolumeMinPositionSize)
    IN  IF ~BigLeq(minPositionSize, positionSize) THEN minPositionSize
        ELSE positionSize

\* VolumeStrategy.calculatePositionSize
VolumeCalculatePositionSize(quoteReserve) ==
    LET positionSize == BigDiv(quoteReserve, BigOf(50)).quotient
        minPositionSize == BigOf(VolumeMinPositionSize)
        maxPositionSize == BigOf(VolumeMaxPositionSize)
    IN  IF ~BigLeq(minPositionSize, positionSize) THEN minPositionSize
        ELSE IF ~BigLeq(positionSize, maxPositionSize) THEN maxPositionSize
        ELSE positionSize

\* a faulty Liquidity size that takes a hundredth of the reserve
LiquidityCalculatePositionSizeHundredth(quoteReserve) ==
    LET positionSize == BigDiv(quoteReserve, BigOf(100)).quotient
        minPositionSize == BigOf(LiquidityMinPositionSize)
        maxPositionSize == BigOf(LiquidityMaxPositionSize)
    IN  IF ~BigLeq(minPositionSize, positionSize) THEN minPositionSize
        ELSE IF ~BigLeq(positionSize, maxPositionSize) THEN maxPositionSize
        ELSE positionSize

\* LiquidityStrategy.calculatePositionSize
LiquidityCalculatePositionSize(quoteReserve) ==
    LET positionSize == BigDiv(quoteReserve, BigOf(200)).quotient
        minPositionSize == BigOf(LiquidityMinPositionSize)
        maxPositionSize == BigOf(LiquidityMaxPositionSize)
    IN  IF ~BigLeq(minPositionSize, positionSize) THEN minPositionSize
        ELSE IF ~BigLeq(positionSize, maxPositionSize) THEN maxPositionSize
        ELSE positionSize

(***************************************************************************)
(* The policies on their own, called as the manager calls them, one token  *)
(* (mint 1).  Prices are in hundredths, so 100 is a price of 1.0.          *)
(***************************************************************************)
\* what retrieveTokenValueByAddress returns to Momentum's shouldBuy
MomentumBuyPrices == {0, 100, 109, 110, 120}

\* the prices the monitoring loop passes to shouldSell
SellPrices == {0, 70, 71, 110, 120, 149, 150}

\* positions as the bot files them: buyValue and entryPrice are both the
\* price read back after the buy
PolicyPositions ==
    { [mint |-> 1, poolId |-> 1, entryPrice |-> b, amount |-> 10000000,
       buyValue |-> b, strategy |-> "momentum"] : b \in {0, 100} }

InitPolicies ==
    /\ InitBot(MainChain, 0)
    /\ AUTO_SELL = FALSE
    /\ USE_SNIPE_LIST = FALSE
    /\ MIN_POOL_SIZE = 1
    /\ activeStrategy = "momentum"
    /\ snipeList = {}

\* MomentumStrategy.shouldBuy(poolInfo) for mint 1, price being what the
\* price service returns
MomentumBuyCall(price) ==
    LET r == MomentumShouldBuy(priceHistory[1], price)
    IN  /\ priceHistory' = [priceHistory EXCEPT ![1] = r.history]
        /\ mgr' = [op |-> "Momentum.shouldBuy", price |-> price,
                   before |-> priceHistory[1], result |-> r.decision]
        /\ UNCHANGED <<strategies, activeStrategy>>
        /\ ManagerFrame

\* MomentumStrategy.shouldSell(position, currentPrice)
MomentumSellCall(position, currentPrice) ==
    /\ mgr' = [op |-> "Momentum.shouldSell", position |-> position,
               price |-> currentPrice, before |-> priceHistory[1],
               result |-> MomentumShouldSell(position, currentPrice,
                                             priceHistory[1])]
    /\ UNCHANGED <<strategies, activeStrategy, priceHistory>>
    /\ ManagerFrame

\* what fetchTokenData returns: null, or the market data of the token
VolumeBuyData ==
    { [found |-> FALSE, h24 |-> 0, usd |-> 0, h1 |-> 0, h6 |-> 0,
       change1h |-> 0] }
    \cup
    { [found |-> TRUE, h24 |-> h24, usd |-> usd, h1 |-> h1, h6 |-> 6000,
       change1h |-> c] :
        h24 \in {9999, 10000}, usd \in {4999, 5000}, h1 \in {1500, 1501},
        c \in {-1, 0, 1} }

VolumeBuyCall(tokenData) ==
    /\ mgr' = [op |-> "Volume.shouldBuy", tokenData |-> tokenData,
               result |-> VolumeShouldBuy(tokenData)]
    /\ UNCHANGED <<strategies, activeStrategy, priceHistory>>
    /\ ManagerFrame

\* the probe trade of shouldBuy and a smaller one, against reserves from
\* nothing to 2 SOL
ImpactAmounts == {Pow10(7), LiquidityTradeSize}
ImpactReserves == {0, 5 * Pow10(8), Pow10(9), 2 * Pow10(9) + 7}

PriceImpactCall(amountIn, reserveIn, reserveOut) ==
    /\ mgr' = [op |-> "calculatePriceImpact", amountIn |-> amountIn,
               reserveIn |-> reserveIn, reserveOut |-> reserveOut,
               result |-> calculatePriceImpact(BigOf(amountIn),
                                               BigOf(reserveIn),
                                               BigOf(reserveOut))]
    /\ UNCHANGED <<strategies, activeStrategy, priceHistory>>
    /\ ManagerFrame

\* quote reserves from nothing to 200 SOL, in tenths of a SOL plus a few
\* lamports
SizeReserves ==
    { BigAdd(BigMul(BigOf(n), BigOf(Pow10(8))), BigOf(r), 0) :
        n \in {0, 2, 4, 5, 10, 11, 20, 500, 501, 1000, 1001, 2000},
        r \in {0, 1, 199} }

PositionSizeCall(type, quoteReserve) ==
    /\ mgr' = [op |-> "calculatePositionSize", type |-> type,
               quoteReserve |-> quoteReserve,
               result |->
                 CASE type = "momentum" ->
                        MomentumCalculatePositionSize(quoteReserve)
                   [] type = "volume" ->
                        VolumeCalculatePositionSize(quoteReserve)
                   [] type = "liquidity" ->
                        LiquidityCalculatePositionSize(quoteReserve)]
    /\ UNCHANGED <<strategies, activeStrategy, priceHistory>>
    /\ ManagerFrame

NextPolicies ==
    \/ \E price \in MomentumBuyPrices : MomentumBuyCall(price)
    \/ \E position \in PolicyPositions, price \in SellPrices :
         MomentumSellCall(position, price)
    \/ \E tokenData \in VolumeBuyData : VolumeBuyCall(tokenData)

SpecPolicies == InitPolicies /\ [][NextPolicies]_vars

(***************************************************************************)
(* The amounts the policies compute, which depend on nothing but their     *)
(* arguments.                                                              *)
(***************************************************************************)
NextAmounts ==
    \/ \E amountIn \in ImpactAmounts, reserveIn \in ImpactReserves,
          reserveOut \in ImpactReserves :
         PriceImpactCall(amountIn, reserveIn, reserveOut)
    \/ \E type \in {"momentum", "volume", "liquidity"},
          quoteReserve \in SizeReserves :
         PositionSizeCall(type, quoteReserve)

SpecAmounts == InitPolicies /\ [][NextAmounts]_vars

(***************************************************************************)
(* Momentum over the life of one position: the token is evaluated until    *)
(* shouldBuy says yes, the position is then monitored, one shouldSell per  *)
(* tick with the price the tick fetched, until shouldSell says yes.  seen  *)
(* observes the prices of the last 3 ticks.                                *)
(***************************************************************************)
ReversalBuyPrices == {100, 110, 120}
ReversalTickPrices == {110, 120, 130, 150}

MomentumPositionOpen ==
    \/ mgr.op = "Momentum.shouldBuy" /\ mgr.result
    \/ mgr.op = "Momentum.monitor" /\ ~mgr.result

\* one pass of the loop of monitorPositions over the position
MomentumMonitorCall(position, currentPrice) ==
    /\ MomentumPositionOpen
    /\ LET seen == IF mgr.op = "Momentum.monitor"
                     THEN Append(mgr.seen, currentPrice)
                     ELSE <<currentPrice>>
       IN  mgr' = [op |-> "Momentum.monitor", position |-> position,
                   price |-> currentPrice,
                   seen |-> IF Len(seen) > 3 THEN Tail(seen) ELSE seen,
                   before |-> priceHistory[1],
                   result |-> MomentumShouldSell(position, currentPrice,
                                                 priceHistory[1])]
    /\ UNCHANGED <<strategies, activeStrategy, priceHistory>>
    /\ ManagerFrame

NextReversal ==
    \/ \E price \in ReversalBuyPrices :
         ~MomentumPositionOpen /\ MomentumBuyCall(price)
    \/ \E position \in {p \in PolicyPositions : p.buyValue = 100},
          price \in ReversalTickPrices :
         MomentumMonitorCall(position, price)

SpecReversal == InitPolicies /\ [][NextReversal]_vars

(***************************************************************************)
(* The sell decisions of the three policies, called as the monitoring loop *)
(* calls them, on the positions of one token (mint 1), for which Momentum  *)
(* has recorded no price; and Liquidity's buy decision, called as the pool *)
(* evaluation calls it.                                                    *)
(***************************************************************************)
\* prices around the thresholds of a position bought at 100
DecisionPrices == {0, 70, 71, 80, 81, 104, 105, 129, 130, 149, 150}

\* what fetchTokenData returns to Volume's shouldSell: null, or 1-hour
\* volumes around half of and all of the 6-hour hourly average (1000)
VolumeSellData ==
    { [found |-> FALSE, h24 |-> 0, usd |-> 0, h1 |-> 0, h6 |-> 0,
       change1h |-> 0] }
    \cup
    { [found |-> TRUE, h24 |-> 20000, usd |-> 6000, h1 |-> h1, h6 |-> 6000,
       change1h |-> c] :
        h1 \in {499, 500, 1000, 1001}, c \in {-6, -5} }

VolumeSellCall(position, currentPrice, tokenData) ==
    /\ mgr' = [op |-> "Volume.shouldSell", position |-> position,
               price |-> currentPrice, tokenData |-> tokenData,
               result |-> VolumeShouldSell(position, currentPrice, tokenData)]
    /\ UNCHANGED <<strategies, activeStrategy, priceHistory>>
    /\ ManagerFrame

LiquiditySellCall(position, currentPrice, holdTime) ==
    /\ mgr' = [op |-> "Liquidity.shouldSell", position |-> position,
               price |-> currentPrice, holdTime |-> holdTime,
               result |-> LiquidityShouldSell(position, currentPrice,
                                              holdTime)]
    /\ UNCHANGED <<strategies, activeStrategy, priceHistory>>
    /\ ManagerFrame

\* calculatePriceImpact(...) > limit on bigints: 100 > limit when a
\* reserve is zero, false for NaN (exactQuote zero)
PriceImpactExceeds(amountIn, reserveIn, reserveOut, limit) ==
    IF reserveIn = <<>> \/ reserveOut = <<>>
      THEN 100 > limit
      ELSE LET amountInWithFee == BigMul(amountIn, BigOf(9975))
               numerator == BigMul(amountInWithFee, reserveOut)
               denominator ==
                 BigAdd(BigMul(reserveIn, BigOf(10000)), amountInWithFee, 0)
               amountOut == BigDiv(numerator, denominator).quotient
               exactQuote ==
                 BigDiv(BigMul(amountIn, reserveOut), reserveIn).quotient
               lost == BigSub(exactQuote, amountOut, 0)
           IN  IF exactQuote = <<>>
                 THEN FALSE
                 ELSE ~BigLeq(BigScale(lost, 100, 0),
                              BigScale(exactQuote, limit, 0))

\* LiquidityStrategy.shouldBuy on the bigint reserves of the snapshot;
\* poolAge is Date.now() - poolInfo.createdAt
LiquidityShouldBuyOn(quoteReserve, baseReserve, quoteDecimals, poolAge) ==
    LET unit == BigOf(Pow10(quoteDecimals))
        below(n) == ~BigLeq(BigScale(unit, n, 0), quoteReserve)
    IN  IF below(minLiquiditySOL) THEN FALSE
        ELSE IF PriceImpactExceeds(BigOf(LiquidityTradeSize), quoteReserve,
                                   baseReserve, maxPriceImpact)
          THEN FALSE
        ELSE IF poolAge < DAY_MS /\ below(minLiquiditySOL * 2) THEN FALSE
        ELSE /\ ~BigLeq(BigScale(quoteReserve, 1000, 0), baseReserve)
             /\ ~BigLeq(BigScale(baseReserve, 1000, 0), quoteReserve)

\* quote reserves of 10 and 20 SOL and a lamport less; base reserves from
\* nothing to a thousand times 20 SOL
LiquidityQuoteReserves ==
    { BigSub(BigScale(BigOf(Pow10(9)), n, 0), BigOf(r), 0) :
        n \in {10, 20}, r \in {0, 1} }
LiquidityBaseReserves ==
    { <<>>, BigOf(2 * Pow10(7)),
      BigScale(BigOf(Pow10(9)), 20, 0),
      BigSub(BigScale(BigOf(Pow10(9)), 20000, 0), <<1>>, 0),
      BigScale(BigOf(Pow10(9)), 20000, 0) }

\* the time since the pool was created on chain, and the time between
\* the snapshot fetch, which stamps createdAt with Date.now(), and the
\* call of shouldBuy
PoolAges == {DAY_MS - 1, DAY_MS}
FetchDelays == {0, 5}

\* processPumpSwapPool under Liquidity: getPoolInfo, then shouldBuy on
\* the snapshot it returned (9 quote decimals)
LiquidityBuyCall(quoteReserve, baseReserve, age, delay) ==
    /\ mgr' = [op |-> "Liquidity.shouldBuy", quoteReserve |-> quoteReserve,
               baseReserve |-> baseReserve, age |-> age,
               poolAge |-> delay,
               result |-> LiquidityShouldBuyOn(quoteReserve, baseReserve, 9,
                                               delay)]
    /\ UNCHANGED <<strategies, activeStrategy, priceHistory>>
    /\ ManagerFrame

NextDecisions ==
    \/ \E position \in PolicyPositions, price \in DecisionPrices :
         MomentumSellCall(position, price)
    \/ \E position \in PolicyPositions, price \in DecisionPrices,
          tokenData \in VolumeSellData :
         VolumeSellCall(position, price, tokenData)
    \/ \E position \in PolicyPositions, price \in DecisionPrices,
          holdTime \in HoldTimes :
         LiquiditySellCall(position, price, holdTime)
    \/ \E quoteReserve \in LiquidityQuoteReserves,
          baseReserve \in LiquidityBaseReserves,
          age \in PoolAges, delay \in FetchDelays :
         LiquidityBuyCall(quoteReserve, baseReserve, age, delay)

SpecDecisions == InitPolicies /\ [][NextDecisions]_vars

(***************************************************************************)
(* Overlapping monitoring calls.  setInterval starts monitorPositions      *)
(* every five seconds whether or not the call before it has returned: one  *)
(* pool is bought under the Volume policy and two calls may be under way   *)
(* at once.                                                                *)
(***************************************************************************)
OneChain == <<1>>

InitOverlap ==
    /\ InitBot(OneChain, MaxTicks + 1)
    /\ AUTO_SELL = TRUE
    /\ USE_SNIPE_LIST = FALSE
    /\ MIN_POOL_SIZE = 1
    /\ activeStrategy = "volume"
    /\ snipeList = {}

NextOverlap ==
    \/ \E p \in DOMAIN chain : Discover(p)
    \/ \E p \in DOMAIN chain :
         \E a \in Fetched(chain[p]) : PoolInfoReturns(p, a)
    \/ \E p \in DOMAIN chain, d \in TokenDatas : VolumeReturns(p, d)
    \/ \E p \in DOMAIN chain, ok \in BOOLEAN : BuyBuilt(p, ok)
    \/ \E p \in DOMAIN chain, o \in OrderOutcomes : BuySettles(p, o)
    \/ \E p \in DOMAIN chain :
         \E a \in Fetched(chain[p]) : BuyPriceReturns(p, a)
    \/ \E t \in DOMAIN ticks : TickStart(t)
    \/ \E t \in DOMAIN ticks, price \in PriceResults : TickPrice(t, price, 0)
    \/ \E t \in DOMAIN ticks, d \in TokenDatas : TickTokenData(t, d)
    \/ \E t \in DOMAIN ticks :
         \E a \in Fetched(ticks[t].mint) : TickPoolInfo(t, a)
    \/ \E t \in DOMAIN ticks, ok \in BOOLEAN : SellBuilt(t, ok)
    \/ \E t \in DOMAIN ticks, o \in OrderOutcomes : SellSettles(t, o)

SpecOverlap == InitOverlap /\ [][NextOverlap]_vars

\* The timer keeps firing and every await of a monitoring call settles
\* (weak fairness of each call's steps); and, of the answers an await may
\* get, the good one is not withheld for ever (strong fairness): a price
\* past one of the thresholds of a position with a buy value, a pool
\* snapshot, a blockhash, a confirmed order.
FairMonitoring ==
    \A t \in 1 .. (MaxTicks + 1) :
      LET SellDecided ==
            \E price \in PriceResults :
              /\ ~price.threw
              /\ ~noPrice(price.value)
              /\ ticks[t].position.buyValue # 0
              /\ VolumeSellByThreshold(ticks[t].position, price.value)
              /\ TickPrice(t, price, 0)
          SnapshotFetched ==
            \E a \in Fetched(ticks[t].mint) :
              /\ hasPoolInfo(getPoolInfo(ticks[t].position.poolId, a))
              /\ TickPoolInfo(t, a)
          TickStep ==
            \/ TickStart(t)
            \/ \E price \in PriceResults : TickPrice(t, price, 0)
            \/ \E d \in TokenDatas : TickTokenData(t, d)
            \/ \E a \in Fetched(ticks[t].mint) : TickPoolInfo(t, a)
            \/ \E ok \in BOOLEAN : SellBuilt(t, ok)
            \/ \E o \in OrderOutcomes : SellSettles(t, o)
      IN  /\ WF_vars(TickStep)
          /\ SF_vars(SellDecided)
          /\ SF_vars(SnapshotFetched)
          /\ SF_vars(SellBuilt(t, TRUE))
          /\ SF_vars(SellSettles(t, "confirmed"))

LiveOverlap == SpecOverlap /\ FairMonitoring

(***************************************************************************)
(* Properties.                                                             *)
(***************************************************************************)

\* C1 (Spec).  A pool account is admitted once: its evaluation has been
\* started exactly once if the pool is in the registry and never otherwise,
\* however many events the feed delivers for it.
C1_AdmittedOnce ==
    \A p \in DOMAIN chain :
      /\ evalCount[p] <= 1
      /\ (p \in existingPools) <=> (evalCount[p] = 1)
      /\ (p \in existingPools) <=> (proc[p].pc # "idle")

\* a later event for an admitted pool has been delivered and ignored
C1_RedeliveryIgnored ==
    /\ lastEvent.msg = "event ignored"
    /\ \E p \in existingPools : evalCount[p] = 1 /\ proc[p].pc = "done"

\* C3 (Spec).  The position book holds at most one entry per token, and
\* the entry filed under a token is a position in that token.
C3_OneEntryPerToken ==
    \A i, j \in 1 .. Len(activePositions) :
      /\ activePositions[i].key = activePositions[j].key => i = j
      /\ activePositions[i].value.mint = activePositions[i].key

\* a token is open and a second buy of it has settled and is about to be
\* filed
C3_SecondBuyOfOpenToken ==
    \E p \in DOMAIN chain :
      /\ proc[p].pc = "getCurrentPrice"
      /\ MapHas(activePositions, chain[p])
      /\ activePositions[MapIndex(activePositions, chain[p])].value.poolId
           # p

\* C4 (Spec).  A step in which a monitoring call's sell ends without a
\* signature (rejected, or a throw on the way) leaves the position book as
\* it was: the position is neither removed nor duplicated.  And a
\* monitoring call starts at the first entry of the book and goes from
\* each entry to the next, so a position that stays is looked at again by
\* the next call.
C4_SellFailureKeepsPosition ==
    [][\A t \in DOMAIN ticks :
         /\ (/\ ticks[t].pc = "sell"
             /\ ticks'[t] # ticks[t]
             /\ lastEvent'.outcome \in {"rejected", "threw"})
            => activePositions' = activePositions
         /\ (ticks[t].pc = "idle" /\ ticks'[t].pc # "idle")
            => /\ ticks'[t].idx = 1
               /\ ticks'[t].mint = activePositions[1].key
         /\ (/\ ticks[t].pc # "idle"
             /\ ticks'[t].idx # ticks[t].idx
             /\ activePositions' = activePositions)
            => IF ticks[t].idx < Len(activePositions)
                 THEN /\ ticks'[t].idx = ticks[t].idx + 1
                      /\ ticks'[t].mint =
                           activePositions[ticks[t].idx + 1].key
                 ELSE ticks'[t].pc = "idle"]_vars

\* a sell has failed, the monitoring call is over and the position is in
\* the book
C4_FailedSellStillOpen ==
    /\ lastEvent.msg \in {"Sell transaction failed", "Failed to execute sell"}
    /\ lastEvent.outcome \in {"rejected", "threw"}
    /\ Len(activePositions) > 0
    /\ \A t \in DOMAIN ticks : ticks[t].pc = "idle"

\* C5 (SpecManager).  Without an active policy, or when the active policy
\* raises, shouldBuy and shouldSell return false and calculatePositionSize
\* returns 10_000_000; no call of the manager raises.
C5_ManagerFailsClosed ==
    /\ ~mgr.result.threw
    /\ (mgr.op \in {"shouldBuy", "shouldSell"}
          /\ (~mgr.hasStrategy \/ mgr.outcome.threw))
       => mgr.result.value = FALSE
    /\ (mgr.op = "calculatePositionSize"
          /\ (~mgr.hasStrategy \/ mgr.outcome.threw))
       => mgr.result.value = 10000000

\* the active policy, a custom one, has raised in a decision
C5_PolicyRaised ==
    /\ mgr.op \in {"shouldBuy", "shouldSell"}
    /\ mgr.hasStrategy
    /\ mgr.outcome.threw

\* C6 (Spec).  A buy order exists only for a call that saw every gate
\* hold: the token allowed, no position in it, the book below the ceiling,
\* the snapshot's quote reserve at least the minimum, the strategy saying
\* buy.
C6_BuyOnlyPastAllGates ==
    \A p \in DOMAIN chain :
      proc[p].pc \in {"buy", "getCurrentPrice"}
        => /\ proc[p].passed = {"allow", "position", "ceiling", "liquidity",
                                "strategy"}
           /\ proc[p].poolInfo.baseMint = chain[p]
           /\ proc[p].poolInfo.quoteReserve
                >= MIN_POOL_SIZE * Pow10(proc[p].poolInfo.quoteDecimals)

\* a buy order has been handed to the transport
C6_BuySubmitted ==
    \E p \in DOMAIN chain :
      proc[p].pc = "buy" /\ proc[p].order = "Submitted"

\* The step in which the call for pool p, holding a snapshot, ends at a
\* gate or at a policy that answers at once.
GateSkip(p) ==
    /\ proc[p].pc = "getPoolInfo"
    /\ proc'[p].pc = "done"
    /\ lastEvent'.msg # "Failed to fetch pool info"

\* The reason logged in that step is that of the first gate of order that
\* fails for p's token, and that of none of them when none fails.
ReportsFirstOf(order, p) ==
    LET token == [baseMint |-> chain[p]]
        failing == { i \in 1 .. Len(order) : GateFails(order[i], token) }
    IN  IF failing = {}
          THEN lastEvent'.msg \notin
                 { GateMessage(order[i]) : i \in 1 .. Len(order) }
          ELSE lastEvent'.msg =
                 GateMessage(order[CHOOSE i \in failing :
                                     \A j \in failing : i <= j])

\* C7 as claimed (Spec).  The skip reason is that of the first failing
\* gate in the order position, ceiling, allow-list.
C7_ClaimedOrder ==
    [][\A p \in DOMAIN chain :
         GateSkip(p) => ReportsFirstOf(<<"position", "ceiling", "allow">>, p)
      ]_vars

\* C7 (Spec).  The skip reason is that of the first failing gate in the
\* order allow-list, position, ceiling, then liquidity; and the strategy
\* is asked only by a call that saw those four hold.
C7_CodeOrder ==
    [][\A p \in DOMAIN chain :
         /\ GateSkip(p)
            => ReportsFirstOf(<<"allow", "position", "ceiling">>, p)
         /\ (proc[p].pc = "getPoolInfo"
               /\ proc'[p].pc \in {"shouldBuy", "buy"})
            => /\ {"allow", "position", "ceiling", "liquidity"}
                    \subseteq proc'[p].passed
               /\ proc'[p].poolInfo.quoteReserve
                    >= MIN_POOL_SIZE
                         * Pow10(proc'[p].poolInfo.quoteDecimals)
         /\ (proc[p].pc # "shouldBuy" /\ proc'[p].pc = "shouldBuy")
            => proc[p].pc = "getPoolInfo"]_vars

\* a pool of a token that is open but no longer allowed has been skipped
\* for the allow-list
C7_SkippedForAllowListWhileOpen ==
    /\ lastEvent.msg = "Token not in snipe list, skipping"
    /\ USE_SNIPE_LIST
    /\ snipeList = {}
    /\ Len(activePositions) = 1
    /\ activePositions[1].value.poolId = 1
    /\ proc[1].pc = "done"
    /\ proc[2].pc = "idle"
    /\ proc[3].pc = "done"
    /\ chain[3] = activePositions[1].key

\* C8 (SpecCeiling).  A call that looks at the gates while the book holds
\* MAX_CONCURRENT_POSITIONS positions or more, for a token not in the
\* book, ends there: no policy is asked, no order is built, the book is
\* unchanged.
C8_SkippedAtCeiling ==
    [][\A p \in DOMAIN chain :
         (/\ proc[p].pc = "getPoolInfo"
          /\ proc'[p] # proc[p]
          /\ Len(activePositions) >= MAX_CONCURRENT_POSITIONS
          /\ \A i \in 1 .. Len(activePositions) :
               activePositions[i].key # chain[p])
         => /\ proc'[p].pc = "done"
            /\ activePositions' = activePositions
            /\ lastEvent'.msg \in
                 {"Max concurrent positions reached, skipping",
                  "Failed to fetch pool info"}]_vars

\* with exactly MAX_CONCURRENT_POSITIONS positions open, a further pool
\* has been skipped for the ceiling
C8_SkipAtExactCeiling ==
    /\ lastEvent.msg = "Max concurrent positions reached, skipping"
    /\ Len(activePositions) = MAX_CONCURRENT_POSITIONS
    /\ proc[6].pc = "done"

\* C2 as claimed (SpecCeiling).  The number of open positions never
\* exceeds MAX_CONCURRENT_POSITIONS.
C2_NeverAboveCeiling ==
    Len(activePositions) <= MAX_CONCURRENT_POSITIONS

\* C9 (Spec).  A step in which a call's buy ends without a signature
\* (rejected, or a throw on the way) ends the call and leaves the position
\* book as it was; and an entry is put in the book only by a call whose
\* buy returned a signature and whose price read-back has answered.
C9_BuyFailureLeavesBook ==
    [][/\ \A p \in DOMAIN chain :
            (/\ proc[p].pc = "buy"
             /\ proc'[p] # proc[p]
             /\ lastEvent'.outcome \in {"rejected", "threw"})
            => /\ proc'[p].pc = "done"
               /\ activePositions' = activePositions
       /\ (/\ activePositions' # activePositions
           /\ Len(activePositions') >= Len(activePositions))
          => \E p \in DOMAIN chain :
               /\ proc[p].pc = "getCurrentPrice"
               /\ proc[p].order = "Confirmed"
               /\ proc'[p].pc = "done"]_vars

\* a buy has failed and its call is over
C9_BuyFailed ==
    /\ lastEvent.msg \in {"Buy transaction failed", "Failed to execute buy"}
    /\ lastEvent.outcome \in {"rejected", "threw"}
    /\ \E p \in DOMAIN chain : proc[p].pc = "done"

\* C10 (Spec).  A step in which the price fetch of a monitoring call
\* throws or returns no price passes the position over: the book is
\* unchanged and the call is at the next entry or over, not waiting for a
\* decision, a snapshot or an order.  The policy is asked, and a sell is
\* started, only with a price.
C10_NoPriceNoDecision ==
    [][/\ \A t \in DOMAIN ticks :
            (/\ ticks[t].pc = "price"
             /\ ticks'[t] # ticks[t]
             /\ lastEvent'.msg \in {"Failed to fetch current price",
                                    "Failed to monitor position"})
            => /\ activePositions' = activePositions
               /\ ticks'[t].pc \in {"price", "idle"}
               /\ ticks'[t].pc = "price" => ticks'[t].idx = ticks[t].idx + 1
       /\ lastEvent'.msg \in {"Sell decision evaluated", "Selling token...",
                              "No active strategy found"}
          => lastEvent'.price # 0
       /\ \A t \in DOMAIN ticks :
            ticks'[t].pc \in {"tokenData", "getPoolInfo", "sell"}
              => ticks'[t].currentPrice # 0]_vars

\* a price fetch has returned no price and the position is in the book
C10_NoPriceSkipped ==
    /\ lastEvent.msg = "Failed to fetch current price"
    /\ Len(activePositions) > 0

\* C11 (Spec).  A monitoring call that has decided to sell and whose
\* snapshot fetch returns nothing passes the position over: no sell order
\* is built and the step leaves the position book as it was.  A sell order
\* exists only with a snapshot of the position's pool.
C11_NoSnapshotNoSell ==
    [][\A t \in DOMAIN ticks :
         /\ (ticks[t].pc = "getPoolInfo" /\ ticks'[t] # ticks[t])
            => IF ticks'[t].pc = "sell"
                 THEN /\ ticks'[t].poolInfo # NoPoolInfo
                      /\ ticks'[t].poolInfo.poolId = ticks[t].position.poolId
                      /\ ticks'[t].order = "Building"
                 ELSE /\ lastEvent'.msg = "Pool account not found"
                      /\ activePositions' = activePositions
                      /\ ticks'[t].pc \in {"price", "idle"}
         /\ (ticks[t].pc # "sell" /\ ticks'[t].pc = "sell")
            => ticks[t].pc = "getPoolInfo"]_vars

\* the snapshot for a sell was not found, the monitoring call is over and
\* the position is in the book
C11_SellSkippedStillOpen ==
    /\ lastEvent.msg = "Pool account not found"
    /\ Len(activePositions) = 1
    /\ \A t \in DOMAIN ticks : ticks[t].pc = "idle"

\* C12 (Spec).  A token leaves the position book only in the step in which
\* a sell of that token, handed to the transport by a monitoring call, is
\* confirmed without error; and in the step in which a monitoring call's
\* sell is confirmed the token is removed from the book.
C12_RemovedOnConfirmedSell ==
    [][/\ \A i \in 1 .. Len(activePositions) :
            ~MapHas(activePositions', activePositions[i].key)
            => /\ lastEvent' = OrderEvent("Sell successful", "confirmed")
               /\ \E t \in DOMAIN ticks :
                    /\ ticks[t].pc = "sell"
                    /\ ticks[t].order = "Submitted"
                    /\ ticks[t].mint = activePositions[i].key
                    /\ ticks'[t].pc # "sell"
       /\ \A t \in DOMAIN ticks :
            (/\ ticks[t].pc = "sell"
             /\ ticks[t].order = "Submitted"
             /\ ticks'[t].pc # "sell"
             /\ lastEvent'.outcome = "confirmed")
            => ~MapHas(activePositions', ticks[t].mint)]_vars

\* a sell has been confirmed and the book, which held that position only,
\* is empty
C12_SoldAndRemoved ==
    /\ lastEvent = OrderEvent("Sell successful", "confirmed")
    /\ activePositions = <<>>

\* C13 as claimed (Spec).  A monitoring call runs over the positions that
\* were open when it began: the position it has in hand is one of a token
\* that was in the book at that moment, so that a position filed by a buy
\* that completes while the call is waiting is left to a later call.
C13_OnlyPositionsOpenAtStart ==
    \A t \in DOMAIN ticks :
      ticks[t].pc # "idle" => ticks[t].mint \in ticks[t].began

\* C14 as claimed (Spec).  Every position in the book has a positive
\* amount and a positive entry price.
C14_PositionsWellFormed ==
    \A i \in 1 .. Len(activePositions) :
      /\ activePositions[i].value.amount > 0
      /\ activePositions[i].value.entryPrice > 0

\* C15 (Spec).  An order is built, then handed to the transport, then
\* either confirmed or failed; building can fail too.  buy and sell return
\* a signature exactly when the confirmation arrives without error; when
\* building throws, when the transport throws and when the confirmation
\* carries an error they return null to the caller, which goes on (the
\* evaluation ends, the monitoring call continues) and raises nothing.
C15_OrderLifecycle ==
    [][/\ \A p \in DOMAIN chain :
            LET from == proc[p].order
                to == proc'[p].order
            IN  /\ from # to
                   => <<from, to>> \in
                        {<<"none", "Building">>, <<"Building", "Submitted">>,
                         <<"Submitted", "Confirmed">>, <<"Building", "none">>,
                         <<"Submitted", "none">>, <<"Confirmed", "none">>}
                /\ (from = "Building" /\ to = "none")
                   => /\ lastEvent' = OrderEvent("Failed to execute buy",
                                                 "threw")
                      /\ proc'[p].pc = "done"
                /\ (from = "Submitted" /\ to = "none")
                   => /\ lastEvent'.outcome \in {"rejected", "threw"}
                      /\ lastEvent'.msg \in {"Buy transaction failed",
                                             "Failed to execute buy"}
                      /\ proc'[p].pc = "done"
                /\ (from = "Submitted" /\ to # from)
                   => (to = "Confirmed" <=> lastEvent'.outcome = "confirmed")
                /\ (proc[p].pc # "getCurrentPrice"
                      /\ proc'[p].pc = "getCurrentPrice")
                   => from = "Submitted" /\ to = "Confirmed"
       /\ \A t \in DOMAIN ticks :
            LET from == ticks[t].order
                to == ticks'[t].order
            IN  /\ from # to
                   => <<from, to>> \in
                        {<<"none", "Building">>, <<"Building", "Submitted">>,
                         <<"Building", "none">>, <<"Submitted", "none">>}
                /\ (from = "Building" /\ to = "none")
                   => lastEvent' = OrderEvent("Failed to execute sell",
                                              "threw")
                /\ (from = "Submitted" /\ to = "none")
                   => /\ lastEvent'.outcome \in OrderOutcomes
                      /\ (lastEvent'.msg = "Sell successful"
                            <=> lastEvent'.outcome = "confirmed")
                      /\ ticks'[t].pc \in {"price", "idle"}]_vars

\* a buy order has been confirmed without error and its signature returned
C15_BuyConfirmed ==
    /\ lastEvent = OrderEvent("Buy transaction confirmed", "confirmed")
    /\ \E p \in DOMAIN chain :
         proc[p].pc = "getCurrentPrice" /\ proc[p].order = "Confirmed"

\* Amounts in units of 10^6 of the smallest unit, in which the products of
\* calculateSwapOutput stay within the range of the integers at hand; the
\* quotient in these units is not above the exact one.
SwapUnit == Pow10(6)

ExpectedOutput(amountIn, reserveIn, reserveOut) ==
    calculateSwapOutput(amountIn \div SwapUnit, reserveIn \div SwapUnit,
                        reserveOut \div SwapUnit, SwapFeeBps)

GuardCovers(minAmountOut, expected) ==
    (minAmountOut \div SwapUnit) * 10000
      >= expected * (10000 - MAX_SLIPPAGE_BPS)

\* C16 as claimed (Spec).  Every order handed to the transport carries a
\* least output of at least the constant-product output of its snapshot
\* less MAX_SLIPPAGE_BPS: a buy pays quote for base, a sell base for quote.
C16_OrdersCarrySlippageGuard ==
    /\ \A p \in DOMAIN chain :
         proc[p].order = "Submitted"
           => GuardCovers(proc[p].minAmountOut,
                          ExpectedOutput(proc[p].positionSize,
                                         proc[p].poolInfo.quoteReserve,
                                         proc[p].poolInfo.baseReserve))
    /\ \A t \in DOMAIN ticks :
         ticks[t].order = "Submitted"
           => GuardCovers(ticks[t].minAmountOut,
                          ExpectedOutput(ticks[t].position.amount,
                                         ticks[t].poolInfo.baseReserve,
                                         ticks[t].poolInfo.quoteReserve))

\* C17 (SpecPrice).  The price getCurrentPrice returns is that of the pool
\* account as the chain holds it at the call, whatever the snapshot handed
\* in says: 0 when there is no account or its base reserve is zero, else
\* its quote reserve over its base reserve times
\* 10^(quoteDecimals - baseDecimals).
C17_PriceFromFreshSnapshot ==
    mgr.op = "getCurrentPrice"
      => mgr.result =
           IF ~mgr.account.exists \/ mgr.account.baseReserve = 0
             THEN 0
             ELSE (mgr.account.quoteReserve \div mgr.account.baseReserve)
                    * Pow10(mgr.account.quoteDecimals
                              - mgr.account.baseDecimals)

\* a price has been read while the snapshot handed in had other reserves
\* and other decimals than the account, and a price of its own
C17_StaleSnapshotIgnored ==
    /\ mgr.op = "getCurrentPrice"
    /\ mgr.result = 3
    /\ mgr.account.baseDecimals = 9
    /\ mgr.poolInfo.baseDecimals = 6
    /\ mgr.poolInfo.quoteReserve = 2000
    /\ mgr.poolInfo.baseReserve = 1000

\* C18 as claimed (SpecManager).  The manager's active type always names a
\* registered policy, whatever type it was constructed with and whatever
\* setActiveStrategy calls were made.
C18_ActiveIsRegistered ==
    activeStrategy \in strategies

\* what is logged when a pool evaluation, or the handling of one position
\* in a monitoring call, fails
EvaluationFailures ==
    {"Failed to fetch pool info", "Buy transaction failed",
     "Failed to execute buy"}

MonitoringFailures ==
    {"Failed to monitor position", "Failed to fetch current price",
     "Pool account not found", "Sell transaction failed",
     "Failed to execute sell"}

\* C19 (Spec).  A failure stays with its token.  The step in which a pool
\* evaluation fails ends that evaluation only: the other evaluations, the
\* monitoring calls, the registry and the book are as they were.  The step
\* in which the handling of a position fails in a monitoring call takes
\* the call to the next entry of the book when there is one, and leaves
\* the evaluations, the registry and the book as they were.  And the feed
\* can at any time report a pool not yet seen, whose evaluation then
\* starts.
C19_FailureIsolated ==
    /\ [](\A q \in DOMAIN chain :
            q \notin existingPools
              => ENABLED (Discover(q) /\ proc'[q].pc = "getPoolInfo"))
    /\ [][/\ \A p \in DOMAIN chain :
               (/\ proc[p].pc \notin {"idle", "done"}
                /\ proc'[p].pc = "done"
                /\ lastEvent'.msg \in EvaluationFailures)
               => /\ \A q \in DOMAIN chain \ {p} : proc'[q] = proc[q]
                  /\ ticks' = ticks
                  /\ existingPools' = existingPools
                  /\ activePositions' = activePositions
          /\ \A t \in DOMAIN ticks :
               (/\ ticks[t].pc # "idle"
                /\ ticks'[t] # ticks[t]
                /\ lastEvent'.msg \in MonitoringFailures)
               => /\ IF ticks[t].idx < Len(activePositions)
                       THEN /\ ticks'[t].pc = "price"
                            /\ ticks'[t].idx = ticks[t].idx + 1
                            /\ ticks'[t].mint =
                                 activePositions[ticks[t].idx + 1].key
                       ELSE ticks'[t].pc = "idle"
                  /\ proc' = proc
                  /\ existingPools' = existingPools
                  /\ activePositions' = activePositions]_vars

\* the price fetch for the first position of the book has thrown and the
\* same monitoring call has the second position in hand
C19_NextPositionAfterFailure ==
    /\ lastEvent.msg = "Failed to monitor position"
    /\ Len(activePositions) = 2
    /\ \E t \in DOMAIN ticks :
         /\ ticks[t].pc = "price"
         /\ ticks[t].idx = 2
         /\ ticks[t].mint = activePositions[2].key

\* C20 as claimed (Spec).  An order that is awaiting its settlement holds
\* up neither the feed nor the other tokens: a pool not yet seen can be
\* reported and its evaluation starts, and a monitoring call waits for the
\* settlement of a sell only when no further position of the book is left
\* for it to look at.
C20_PendingOrderStallsNothing ==
    /\ \A q \in DOMAIN chain :
         q \notin existingPools
           => ENABLED (Discover(q) /\ proc'[q].pc = "getPoolInfo")
    /\ \A t \in DOMAIN ticks :
         (ticks[t].pc = "sell" /\ ticks[t].order = "Submitted")
           => ticks[t].idx = Len(activePositions)

\* C21 (SpecPolicies).  Momentum's shouldSell, for a position with an
\* entry price and a current price: true when the change of the price
\* against the entry price is at least MomentumTakeProfitPercent or at most
\* -MomentumStopLossPercent; false when it lies strictly between the two
\* and the recorded prices show no reversal.  With entry 100 it is true at
\* 150 and false at 149.
C21_MomentumTakeProfitStopLoss ==
    (/\ mgr.op = "Momentum.shouldSell"
     /\ mgr.position.entryPrice # 0
     /\ mgr.price # 0)
    => LET entry == mgr.position.entryPrice
           profit100 == (mgr.price - entry) * 100
           hit == \/ profit100 >= MomentumTakeProfitPercent * entry
                  \/ profit100 <= -MomentumStopLossPercent * entry
       IN  /\ hit => mgr.result
           /\ (~hit /\ ~IsDowntrend(mgr.before)) => ~mgr.result
           /\ (entry = 100 /\ mgr.price = 150) => mgr.result
           /\ (entry = 100 /\ mgr.price = 149 /\ ~IsDowntrend(mgr.before))
              => ~mgr.result

\* the price has reached exactly entry plus 50% and the answer is to sell
C21_TakeProfitAtThreshold ==
    /\ mgr.op = "Momentum.shouldSell"
    /\ mgr.position.entryPrice = 100
    /\ mgr.price = 150
    /\ mgr.result

\* C26 (SpecPolicies).  The price window of a token never holds more than
\* lookbackPeriod prices, and a shouldBuy call that gets a price leaves in
\* the window that price as the last one, preceded by the latest prices of
\* the window before the call in their order; a call that gets no price
\* leaves the window as it was.
C26_WindowHoldsLatestPrices ==
    /\ Len(priceHistory[1]) <= lookbackPeriod
    /\ mgr.op = "Momentum.shouldBuy"
       => LET h == priceHistory[1]
              b == mgr.before
              n == Len(h)
          IN  IF mgr.price = 0
                THEN h = b
                ELSE /\ n = IF Len(b) < lookbackPeriod
                              THEN Len(b) + 1 ELSE lookbackPeriod
                     /\ h[n] = mgr.price
                     /\ \A i \in 1 .. (n - 1) : h[i] = b[Len(b) - (n - 1) + i]

\* a full window has taken one more price and dropped its oldest
C26_WindowSlid ==
    /\ mgr.op = "Momentum.shouldBuy"
    /\ Len(mgr.before) = lookbackPeriod
    /\ mgr.before[1] = 100
    /\ mgr.before[2] = 120
    /\ mgr.price = 110
    /\ priceHistory[1][1] = 120
    /\ Len(priceHistory[1]) = lookbackPeriod

\* C27 (SpecPolicies).  Momentum's shouldBuy answers true exactly when it
\* gets a price, the window after recording it holds at least two prices,
\* the latest is at least momentumThreshold percent above the oldest of
\* the window, and the latest is above the one recorded before it.
C27_MomentumBuyRule ==
    mgr.op = "Momentum.shouldBuy"
      => LET h == priceHistory[1]
             n == Len(h)
         IN  mgr.result
               <=> /\ mgr.price # 0
                   /\ n >= 2
                   /\ (h[n] - h[1]) * 100 >= momentumThreshold * h[1]
                   /\ h[n] - h[n - 1] > 0

\* the window has risen by 10% and more but the last step is down: no buy
C27_RisenButReversing ==
    /\ mgr.op = "Momentum.shouldBuy"
    /\ priceHistory[1] = <<100, 120, 110>>
    /\ ~mgr.result

C22_ImpactIsNinePointZeroSix ==
    (/\ mgr.op = "calculatePriceImpact"
     /\ mgr.amountIn = 100000000
     /\ mgr.reserveIn = 1000000000
     /\ mgr.reserveOut = 1000000000)
      => mgr.result \in 9050 .. 9069

\* C22 amended (SpecPolicies).  For reserveIn = reserveOut =
\* 1_000_000_000 and amountIn = 100_000_000 the price impact with the
\* 0.25% fee is 9.30 percent to two decimals (9.297 in thousandths).
C22_ImpactIsNinePointThree ==
    (/\ mgr.op = "calculatePriceImpact"
     /\ mgr.amountIn = 100000000
     /\ mgr.reserveIn = 1000000000
     /\ mgr.reserveOut = 1000000000)
      => mgr.result = 9297

\* the impact of that trade has been computed
C22_ProbeTradeComputed ==
    /\ mgr.op = "calculatePriceImpact"
    /\ mgr.amountIn = 100000000
    /\ mgr.reserveIn = 1000000000
    /\ mgr.reserveOut = 1000000000
    /\ mgr.result > 0

C28_SellsOnObservedReversal ==
    (/\ mgr.op = "Momentum.monitor"
     /\ Len(mgr.seen) = 3
     /\ mgr.seen[2] < mgr.seen[1]
     /\ mgr.seen[3] < mgr.seen[2]
     /\ mgr.price > mgr.position.buyValue
     /\ (mgr.price - mgr.position.buyValue) * 100
          < MomentumTakeProfitPercent * mgr.position.buyValue)
      => mgr.result

\* C24 (Spec).  No buy settles, and no position is filed, for a token
\* that has an open position: between two settled buys of a token there
\* is a successful sell.
C24_OneBuyPerOpenToken ==
    [][\A p \in DOMAIN chain :
         (\/ proc[p].pc = "buy" /\ proc'[p].pc = "getCurrentPrice"
          \/ proc[p].pc = "getCurrentPrice" /\ proc'[p].pc = "done")
           => ~MapHas(activePositions, chain[p])]_vars

\* C25 (Spec).  A token that was open when a monitoring call began and
\* has been closed since is not opened again while that call is running.
C25_NoReentryDuringTick ==
    [][\A t \in DOMAIN ticks :
         \A k \in ticks[t].began :
           (/\ ticks[t].pc # "idle"
            /\ ~MapHas(activePositions, k))
             => ~MapHas(activePositions', k)]_vars

\* C29 (Spec).  The step that removes a token's position from the book
\* leaves Momentum with no recorded price for that token.
C29_HistoryClearedOnClose ==
    [][\A k \in ChainMints :
         (MapHas(activePositions, k) /\ ~MapHas(activePositions', k))
           => priceHistory'[k] = <<>>]_vars

(***************************************************************************)
(* Properties of the policies' decisions and of monitoring.                *)
(***************************************************************************)
\* C31 (SpecDecisions).  For a position with a buy value and a price,
\* Volume's shouldSell answers true at +50% and at -30%, and, with market
\* data, when the 1-hour volume is down by the decline threshold (50%) or
\* more from the 6-hour hourly average, or when the 1-hour price change is
\* below -5% with the 1-hour volume above that average; without market
\* data it answers true only at the two thresholds.
C31_VolumeSellRule ==
    (/\ mgr.op = "Volume.shouldSell"
     /\ mgr.position.buyValue # 0
     /\ mgr.price # 0)
      => LET d == mgr.tokenData
             change100 == (mgr.price - mgr.position.buyValue) * 100
             hit == \/ change100 >= 50 * mgr.position.buyValue
                    \/ change100 <= -30 * mgr.position.buyValue
             declined == 6 * d.h1 * 100 <= d.h6 * (100 - volumeDeclineThreshold)
             sellOff == d.change1h < -5 /\ 6 * d.h1 > d.h6
         IN  /\ hit => mgr.result
             /\ (d.found /\ (declined \/ sellOff)) => mgr.result
             /\ (~d.found /\ ~hit) => ~mgr.result

\* C33 (SpecDecisions).  For a position with a buy value and a price,
\* Liquidity's shouldSell answers true exactly at +30% and above, at -20%
\* and below, and when the position has been held for more than an hour
\* with a change below +5%; it answers false for a position held an hour
\* or less with a change strictly between -20% and +30%.
C33_LiquiditySellRule ==
    (/\ mgr.op = "Liquidity.shouldSell"
     /\ mgr.position.buyValue # 0
     /\ mgr.price # 0)
      => LET change100 == (mgr.price - mgr.position.buyValue) * 100
             base == mgr.position.buyValue
         IN  mgr.result
               <=> \/ change100 >= 30 * base
                   \/ change100 <= -20 * base
                   \/ mgr.holdTime > 60 * 60 * 1000 /\ change100 < 5 * base

\* held for just over an hour at +4%: sold; the same held for an hour is
\* checked by the rule
C33_TimeBoxedExit ==
    /\ mgr.op = "Liquidity.shouldSell"
    /\ mgr.position.buyValue = 100
    /\ mgr.price = 104
    /\ mgr.holdTime = HOUR_MS + 1
    /\ mgr.result

\* C36 (SpecDecisions).  shouldSell of Momentum, Volume and Liquidity
\* answers false when the current price is 0 or the position has no buy
\* value, whatever the hold time and the market data.
C36_SellFailsClosedOnBadData ==
    (/\ mgr.op \in {"Momentum.shouldSell", "Volume.shouldSell",
                    "Liquidity.shouldSell"}
     /\ (mgr.price = 0 \/ mgr.position.buyValue = 0))
      => ~mgr.result

\* Liquidity was asked about a position without a buy value, held for
\* more than an hour, and kept it
C36_KeptWithoutBuyValue ==
    /\ mgr.op = "Liquidity.shouldSell"
    /\ mgr.position.buyValue = 0
    /\ mgr.price = 104
    /\ mgr.holdTime = HOUR_MS + 1
    /\ ~mgr.result

\* C32 (SpecDecisions).  Liquidity's shouldBuy answers true exactly when
\* the quote reserve is at least 10 quote units, at least 20 for a pool
\* created less than 24 hours ago, the price impact of the probe trade is
\* at most 2% (100% with an empty reserve), and the ratio of the reserves
\* lies strictly between 0.001 and 1000.
C32_LiquidityBuyRule ==
    mgr.op = "Liquidity.shouldBuy"
      => LET q == mgr.quoteReserve
             b == mgr.baseReserve
             sol == BigOf(Pow10(9))
             floor == IF mgr.age < DAY_MS THEN 20 ELSE 10
         IN  mgr.result
               <=> /\ BigLeq(BigScale(sol, floor, 0), q)
                   /\ ~PriceImpactExceeds(BigOf(LiquidityTradeSize), q, b, 2)
                   /\ ~BigLeq(BigScale(q, 1000, 0), b)
                   /\ ~BigLeq(BigScale(b, 1000, 0), q)

\* size is quoteReserve / divisor (bigint division) held at lowest and,
\* where there is one, at highest
ClampedQuotient(size, quoteReserve, divisor, lowest, capped, highest) ==
    IF ~BigLeq(BigScale(lowest, divisor, 0), quoteReserve)
      THEN size = lowest
    ELSE IF capped
            /\ BigLeq(BigScale(BigAdd(highest, <<1>>, 0), divisor, 0),
                      quoteReserve)
      THEN size = highest
    ELSE /\ BigLeq(BigScale(size, divisor, 0), quoteReserve)
         /\ ~BigLeq(BigScale(BigAdd(size, <<1>>, 0), divisor, 0),
                    quoteReserve)

\* C34 (SpecAmounts).  For every quote reserve q, Momentum's size is the
\* larger of q / 100 and 10_000_000, Volume's is q / 50 held within
\* [10_000_000, 1_000_000_000], Liquidity's is q / 200 held within
\* [10_000_000, 500_000_000], the divisions being integer divisions; and
\* no policy gives a larger reserve a smaller size.
C34_SizeFormulasMonotone ==
    mgr.op = "calculatePositionSize"
      => LET q == mgr.quoteReserve
             sizeOf(r) ==
               CASE mgr.type = "momentum" -> MomentumCalculatePositionSize(r)
                 [] mgr.type = "volume" -> VolumeCalculatePositionSize(r)
                 [] mgr.type = "liquidity" -> LiquidityCalculatePositionSize(r)
         IN  /\ CASE mgr.type = "momentum" ->
                       ClampedQuotient(mgr.result, q, 100, BigOf(10000000),
                                       FALSE, <<>>)
                  [] mgr.type = "volume" ->
                       ClampedQuotient(mgr.result, q, 50, BigOf(10000000),
                                       TRUE, BigOf(1000000000))
                  [] mgr.type = "liquidity" ->
                       ClampedQuotient(mgr.result, q, 200, BigOf(10000000),
                                       TRUE, BigOf(500000000))
             /\ \A r \in SizeReserves :
                  BigLeq(q, r) => BigLeq(mgr.result, sizeOf(r))

\* Volume has sized a reserve of 1_000_000_199 at 20_000_003: the
\* quotient, rounded down, between the two limits
C34_QuotientRoundedDown ==
    /\ mgr.op = "calculatePositionSize"
    /\ mgr.type = "volume"
    /\ mgr.quoteReserve = BigOf(1000000199)
    /\ mgr.result = BigOf(20000003)

\* C38 (Spec).  Each pool is evaluated at most once and has at most one
\* buy order submitted: an evaluation that has ended, however it ended,
\* is never started again, and an order that has been submitted is never
\* built or submitted a second time.
C38_OneEvaluationPerPool ==
    [][\A p \in DOMAIN chain :
         /\ evalCount'[p] <= 1
         /\ proc[p].pc = "done" => proc'[p] = proc[p]
         /\ proc[p].pc \notin {"idle", "getPoolInfo"}
              => proc'[p].pc # "getPoolInfo"
         /\ proc[p].order \in {"Submitted", "Confirmed"}
              => proc'[p].order \notin {"Building", "Submitted"}
                   \/ proc'[p].order = proc[p].order]_vars

\* every pool has been evaluated, a position has been sold and nothing is
\* open: there is capacity, and no pool left that will be evaluated
C38_IdleAfterCapacityFreed ==
    /\ lastEvent.msg = "Sell successful"
    /\ activePositions = <<>>
    /\ \A p \in DOMAIN chain : proc[p].pc = "done" /\ evalCount[p] = 1

\* C39 (Spec).  With Momentum active, a buy is only under way for a token
\* with at least 2 recorded prices, and a token that has a single pool is
\* never bought and never gets a position.
C39_SinglePoolTokenNeverBought ==
    (activeStrategy = "momentum")
      => \A p \in DOMAIN chain :
           /\ proc[p].pc \in {"buy", "getCurrentPrice"}
                => Len(priceHistory[chain[p]]) >= 2
           /\ (\A o \in DOMAIN chain : chain[o] = chain[p] => o = p)
                => /\ proc[p].pc \notin {"buy", "getCurrentPrice"}
                   /\ ~MapHas(activePositions, chain[p])

\* the only pool of a token has been evaluated with a price and declined,
\* and the token is not open
C39_FirstEvaluationDeclined ==
    /\ activeStrategy = "momentum"
    /\ lastEvent.msg = "Strategy declined buy, skipping"
    /\ \E p \in DOMAIN chain :
         /\ \A o \in DOMAIN chain : chain[o] = chain[p] => o = p
         /\ proc[p].pc = "done"
         /\ Len(priceHistory[chain[p]]) = 1
         /\ ~MapHas(activePositions, chain[p])


\* C37: a position has at most one sell order under way at any time, also
\* when monitoring calls overlap.
C37_OneSellPerPosition ==
    \A t \in DOMAIN ticks, u \in DOMAIN ticks :
      (/\ t # u
       /\ ticks[t].pc = "sell" /\ ticks[t].order = "Submitted"
       /\ ticks[u].pc = "sell" /\ ticks[u].order = "Submitted")
        => ticks[t].mint # ticks[u].mint

\* C35: with auto-sell on, the timer firing and the fetches and the order
\* succeeding in the end, a position whose sell decision keeps coming out
\* true is sold and leaves the book.
C35_PositionEventuallySold ==
    \A m \in Mints :
      (/\ MapHas(activePositions, m)
       /\ activePositions[MapIndex(activePositions, m)].value.buyValue # 0)
        ~> ~MapHas(activePositions, m)

C35_SoldAfterMonitoring ==
    /\ activePositions = <<>>
    /\ lastEvent.msg = "Sell successful"
    /\ AUTO_SELL
    /\ \A t \in DOMAIN ticks : ticks[t].pc = "idle"
=============================================================================
